---------------------------- MODULE Spec2Model ----------------------------
(***************************************************************************)
(* A model of the svm virtual machine: the paged memory (src/src/mem.rs),  *)
(* the instruction codec (src/src/instr.rs), the execution core            *)
(* (src/src/vm.rs) and the two-pass assembler                              *)
(* (src/src/bin/assembler/parser.rs).                                      *)
(*                                                                         *)
(* Representation of machine words.  TLC's integers are 32-bit signed, so  *)
(* a u32 of the program is held as the integer of -2^31 .. 2^31-1 that has *)
(* the same 32-bit two's-complement pattern (0xffffffff is -1, 0xfffffffc  *)
(* is -4).  With TLA+'s floored \div and non-negative %, a bit field of    *)
(* such a word is (w \div 2^shift) % 2^width, `as i32 >> n` is w \div 2^n, *)
(* and the wrapping operations are computed on 16-bit halves so that no    *)
(* intermediate value leaves TLC's range.  A u64 of the program (only      *)
(* end_addr in mem.rs) is held as a page index and an offset in the page.  *)
(***************************************************************************)
EXTENDS Integers, Sequences, FiniteSets, TLC

VARIABLES
    memory,      \* Memory: [page_size, pages]; pages maps a page index to its bytes
    registers,   \* VirtualMachine.registers, 0..31 -> word
    status,      \* how far the process is: "running", or how it stopped
    program,     \* the bytes handed to VirtualMachine::new (SpecVM, SpecAsm)
    result,      \* what VirtualMachine::run returned (SpecVM, SpecAsm)
    overflow_checks, \* the build: TRUE when `+=` and `-` panic on overflow (debug)
    file_handles, \* VirtualMachine.file_handles: slot -> the File opened
    io,          \* the newest call the machine made to the host's files
    calls,       \* the calls made on the Memory so far, newest last (SpecMem)
    buf,         \* the caller's buffer of the newest Memory.read (SpecMem)
    instr,       \* the Instruction handed to write_bytes (SpecCodec)
    code,        \* the bytes write_bytes produced, or the word to decode (SpecCodec)
    decoded,     \* what Instruction::try_from returned (SpecCodec)
    source,      \* the lines handed to the assembler's parse (SpecAsm)
    assembled,   \* what parse returned (SpecAsm)
    twin         \* a second machine run beside the first: [memory, registers, ..] (SpecTwin)

fileVars == <<file_handles, io>>
vmVars == <<memory, registers, status, program, result, overflow_checks,
            file_handles, io>>
memVars == <<calls, buf>>
codecVars == <<instr, code, decoded>>
asmVars == <<source, assembled>>
vars == <<memory, registers, status, program, result, overflow_checks,
          file_handles, io, calls, buf, instr, code, decoded, source, assembled,
          twin>>

\* the value of a variable that holds no record yet
None == [kind |-> "None"]

---------------------------------------------------------------------------
(* 32-bit words *)

Half == 2^16

Lo(w) == w % Half
Hi(w) == w \div Half

\* The word with the given halves; h is taken modulo 2^16.
Word(h, l) == (((h + Half \div 2) % Half) - Half \div 2) * Half + l

\* u32::wrapping_add, i32::wrapping_add
wrapping_add(a, b) ==
    LET l == Lo(a) + Lo(b)
    IN  Word(Hi(a) + Hi(b) + l \div Half, l % Half)

\* u32::wrapping_sub
wrapping_sub(a, b) ==
    LET l == Lo(a) - Lo(b)
    IN  Word(Hi(a) - Hi(b) + l \div Half, l % Half)

\* a < b on u32
ULess(a, b) == IF (a < 0) = (b < 0) THEN a < b ELSE b < 0

\* The bits shift .. shift+width-1 of w, as a number (shift + width <= 32, width <= 30).
Bits(w, shift, width) == (w \div 2^shift) % 2^width

\* bit k (0 .. 31) of a word, and the word that has only bit k set
Bit(w, k) == IF k = 31 THEN (IF w < 0 THEN 1 ELSE 0) ELSE (w \div 2^k) % 2
BitWeight(k) == IF k = 31 THEN (-2) * 2^30 ELSE 2^k

\* the word whose bit k is f[Bit(a, k) + 1][Bit(b, k) + 1], summed from bit k upwards
RECURSIVE Bitwise(_, _, _, _)
Bitwise(f, a, b, k) ==
    IF k > 31 THEN 0
    ELSE f[Bit(a, k) + 1][Bit(b, k) + 1] * BitWeight(k) + Bitwise(f, a, b, k + 1)

\* u32 & u32, u32 | u32, u32 ^ u32
BitAnd(a, b) == Bitwise(<<<<0, 0>>, <<0, 1>>>>, a, b, 0)
BitOr(a, b) == Bitwise(<<<<0, 1>>, <<1, 1>>>>, a, b, 0)
BitXor(a, b) == Bitwise(<<<<0, 1>>, <<1, 0>>>>, a, b, 0)

\* u32 << n for n in 0 .. 31: the bits shifted out are lost
Shl(w, n) ==
    IF n = 0 THEN w
    ELSE IF n = 1 THEN wrapping_add(w, w)
    ELSE LET low == w % 2^(32 - n)
         IN  IF low >= 2^(31 - n) THEN ((low - 2^(32 - n)) * 2^(n - 1)) * 2
             ELSE (low * 2^(n - 1)) * 2

\* i32 >> n for n in 0 .. 31: the sign bit is copied in
Sar(w, n) == IF n = 31 THEN (IF w < 0 THEN -1 ELSE 0) ELSE w \div 2^n

\* u32 >> n for n in 0 .. 31: zeros are shifted in
Shr(w, n) ==
    IF n = 0 \/ w >= 0 THEN Sar(w, n)
    ELSE (Sar(w, n) + 2^(31 - n)) + 2^(31 - n)

Byte == 0 .. 255

\* LittleEndian: the k-th byte (k = 0 the lowest) of a word
ByteOf(w, k) == Bits(w, 8 * k, 8)

\* LittleEndian::read_u32 of four bytes, and of two bytes zero-extended
LeWord(b) ==
    IF Len(b) = 2 THEN Word(0, b[1] + 256 * b[2])
    ELSE Word(b[3] + 256 * b[4], b[1] + 256 * b[2])

---------------------------------------------------------------------------
(* Memory (src/src/mem.rs) *)

DEFAULT_PAGE_SIZE == 4096

\* Memory::new / Memory::with_page_size
Memory_new(ps) == [page_size |-> ps, pages |-> <<>>]

\* Memory::page_count: 2^32 / page_size (page_size a power of two, 4 .. 2^30)
page_count(m) == (2^30 \div m.page_size) * 4

\* Memory::page: Some(page) or None
page(m, index) == IF index \in DOMAIN m.pages THEN m.pages[index] ELSE "None"

ZeroPage(m) == [o \in 0 .. m.page_size - 1 |-> 0]

\* page_mut on a memory that holds one page at a time: the page asked for
\* replaces the others
page_mut_Evicting(m, index) ==
    [m EXCEPT !.pages = [k \in {index} |->
        IF index \in DOMAIN m.pages THEN m.pages[index] ELSE ZeroPage(m)]]

\* Memory::page_mut: the memory with the page allocated (zero-filled) if it was not
page_mut(m, index) ==
    IF index \in DOMAIN m.pages THEN m
    ELSE [m EXCEPT !.pages =
            [k \in DOMAIN m.pages \cup {index} |->
                IF k = index THEN ZeroPage(m) ELSE m.pages[k]]]

\* (addr as u64 / page_size as u64) as usize
AddrPage(m, addr) ==
    (addr \div m.page_size) + (IF addr < 0 THEN page_count(m) ELSE 0)

\* addr as usize % page_size
AddrOffset(m, addr) == addr % m.page_size

\* end_addr = addr + (len - 1), as offset from the start of addr's page
EndTotal(m, addr, len) == AddrOffset(m, addr) + (len - 1)

\* pages.len(): the number of pages in addr/page_size .. end_addr/page_size + 1
PagesLen(m, addr, len) == EndTotal(m, addr, len) \div m.page_size + 1

\* start and end of the slice of the i-th page of the range
SliceStart(m, addr, i) == IF i > 0 THEN 0 ELSE AddrOffset(m, addr)
SliceEnd(m, addr, len, i) ==
    IF i < PagesLen(m, addr, len) - 1 THEN m.page_size
    ELSE (EndTotal(m, addr, len) % m.page_size) + 1

\* the index of the i-th page of the range without the modulo
SliceIndex_Unwrapped(m, addr, i) == AddrPage(m, addr) + i

\* page % self.page_count() for the i-th page of the range
SliceIndex(m, addr, i) == (AddrPage(m, addr) + i) % page_count(m)

\* The loop of Memory::write from its i-th iteration, pos the cursor of buf.
RECURSIVE WriteLoop(_, _, _, _, _)
WriteLoop(m, addr, b, i, pos) ==
    IF i >= PagesLen(m, addr, Len(b)) THEN m
    ELSE
        LET start == SliceStart(m, addr, i)
            end   == SliceEnd(m, addr, Len(b), i)
            index == SliceIndex(m, addr, i)
            m1    == page_mut(m, index)
            \* buf.read_exact(&mut page[start .. end])
            m2    == [m1 EXCEPT !.pages[index] =
                        [o \in 0 .. m.page_size - 1 |->
                            IF start <= o /\ o < end
                            THEN b[pos + (o - start) + 1]
                            ELSE m1.pages[index][o]]]
        IN  WriteLoop(m2, addr, b, i + 1, pos + (end - start))

\* Memory::write: the memory after write(addr, b)
write(m, addr, b) ==
    \* end_addr == addr: nothing is written for a buffer of 0 or 1 bytes
    IF Len(b) <= 1 THEN m
    ELSE WriteLoop(m, addr, b, 0, 0)

Min(a, b) == IF a < b THEN a ELSE b

\* The loop of Memory::read from its i-th iteration.  r = [buf, pos, oob, panic]:
\* the caller's buffer, the cursor position, whether ptr::write_bytes wrote past
\* the end of the buffer, whether write_all(..).unwrap() panicked.
RECURSIVE ReadLoop(_, _, _, _)
ReadLoop(m, addr, i, r) ==
    IF r.panic \/ i >= PagesLen(m, addr, Len(r.buf)) THEN r
    ELSE
        LET n     == Len(r.buf)
            start == SliceStart(m, addr, i)
            end   == SliceEnd(m, addr, n, i)
            index == SliceIndex(m, addr, i)
            pg    == page(m, index)
        IN  IF index \in DOMAIN m.pages
            THEN
                \* buf.write_all(&page[start .. end]).unwrap(): the cursor takes
                \* what fits, and write_all fails (WriteZero) when not all did
                LET from == Min(r.pos, n)
                    amt  == Min(n - from, end - start)
                IN  ReadLoop(m, addr, i + 1,
                        [r EXCEPT
                            !.buf = [k \in 1 .. n |->
                                        IF from < k /\ k <= from + amt
                                        THEN pg[start + (k - from - 1)]
                                        ELSE r.buf[k]],
                            !.pos = r.pos + amt,
                            !.panic = amt < end - start])
            ELSE
                \* ptr::write_bytes(buf.get_mut().as_mut_ptr(), 0, count):
                \* count zero bytes from the START of the buffer
                LET count == (end - start) + 1
                IN  ReadLoop(m, addr, i + 1,
                        [r EXCEPT
                            !.buf = [k \in 1 .. n |->
                                        IF k <= count THEN 0 ELSE r.buf[k]],
                            !.pos = r.pos + count,
                            !.oob = r.oob \/ count > n])

\* Memory::read: [buf, pos, oob, panic] after read(addr, b)
read(m, addr, b) ==
    LET r0 == [buf |-> b, pos |-> 0, oob |-> FALSE, panic |-> FALSE]
    IN  \* end_addr == addr: the buffer is left as it is for 0 or 1 bytes
        IF Len(b) <= 1 THEN r0
        ELSE ReadLoop(m, addr, 0, r0)

---------------------------------------------------------------------------
(* Instruction codec (src/src/instr.rs) *)

OP_CODE_MASK == Shl(1, 6) - 1

DST_REG_SHIFT == 6
\* a destination field of three bits, as the compressed immediate shape has
DST_REG_MASK_ThreeBits == Shl(Shl(1, 3) - 1, DST_REG_SHIFT)

DST_REG_MASK == Shl(Shl(1, 5) - 1, DST_REG_SHIFT)

SRC1_REG_SHIFT == 11
SRC1_REG_MASK == Shl(Shl(1, 5) - 1, SRC1_REG_SHIFT)

SRC2_REG_SHIFT == 16
SRC2_REG_MASK == Shl(Shl(1, 5) - 1, SRC2_REG_SHIFT)

IMM_SHIFT == 16
IMM_MASK == Shl(Shl(1, 16) - 1, IMM_SHIFT)

IMM_STORE_SHIFT1 == 6
IMM_STORE_MASK1 == Shl(Shl(1, 5) - 1, IMM_STORE_SHIFT1)

IMM_STORE_SHIFT2 == 16
IMM_STORE_MASK2 == Shl(Shl(1, 11) - 1, IMM_STORE_SHIFT2 + 5)

C_DST1_REG_SHIFT == 6
C_DST1_REG_MASK == Shl(Shl(1, 3) - 1, C_DST1_REG_SHIFT)

C_DST2_REG_SHIFT == 6
C_DST2_REG_MASK == Shl(Shl(1, 2) - 1, C_DST2_REG_SHIFT)

C_SRC1_REG_SHIFT == 11
C_SRC1_REG_MASK == Shl(Shl(1, 2) - 1, C_SRC1_REG_SHIFT)

C_IMM_SHIFT == 9
C_IMM_MASK == Shl(Shl(1, 7) - 1, C_IMM_SHIFT)

C_IMM_UPPER_SHIFT == 7

C_IMM_STORE_SHIFT1 == 7
C_IMM_STORE_MASK1 == Shl(Shl(1, 3) - 1, C_IMM_STORE_SHIFT1 + 1)

C_IMM_STORE_SHIFT2 == 9
C_IMM_STORE_MASK2 == Shl(Shl(1, 3) - 1, C_IMM_STORE_SHIFT2 + 4)

\* enum OpCode: the discriminants
OpCode == [
    ADD |-> 2, SUB |-> 4, AND |-> 6, OR |-> 8, XOR |-> 10, SLL |-> 12,
    SRL |-> 14, SRA |-> 16,
    ADDI |-> 18, ANDI |-> 20, ORI |-> 22, XORI |-> 24, SLLI |-> 26,
    SRLI |-> 28, SRAI |-> 30,
    BEZ |-> 32, BNZ |-> 34, BEQ |-> 36, BNE |-> 38, BLT |-> 40, BGE |-> 42,
    BLT_U |-> 44, BGE_U |-> 46,
    LI |-> 48, LUI |-> 50, LOAD |-> 52, STORE |-> 54,
    CALL |-> 60, BREAK |-> 62,
    C_ADD |-> 3, C_SUB |-> 5, C_AND |-> 7, C_OR |-> 9, C_XOR |-> 11,
    C_SLL |-> 13, C_SRL |-> 15, C_SRA |-> 17,
    C_ADDI |-> 19, C_ANDI |-> 21, C_ORI |-> 23, C_XORI |-> 25, C_SLLI |-> 27,
    C_SRLI |-> 29, C_SRAI |-> 31,
    C_BEZ |-> 33, C_BNZ |-> 35,
    C_LI |-> 49, C_LUI |-> 51, C_LOAD |-> 53, C_STORE |-> 55,
    MV |-> 57,
    C_CALL |-> 61, C_BREAK |-> 63 ]

\* OpCode::from_discriminant(op).is_some()
OpCodes == {OpCode[n] : n \in DOMAIN OpCode}

\* the opcodes of each arm of try_from
OpsR == {OpCode.ADD, OpCode.SUB, OpCode.AND, OpCode.OR, OpCode.XOR,
         OpCode.SLL, OpCode.SRL, OpCode.SRA}
OpsI == {OpCode.ADDI, OpCode.ANDI, OpCode.ORI, OpCode.XORI, OpCode.SLLI,
         OpCode.SRLI, OpCode.SRAI, OpCode.BEZ, OpCode.BNZ, OpCode.LI,
         OpCode.LOAD, OpCode.CALL, OpCode.BREAK}
OpsS == {OpCode.STORE, OpCode.BEQ, OpCode.BNE, OpCode.BGE, OpCode.BLT,
         OpCode.BGE_U, OpCode.BLT_U}
OpsCR == {OpCode.C_ADD, OpCode.C_SUB, OpCode.C_AND, OpCode.C_OR, OpCode.C_XOR,
          OpCode.C_SLL, OpCode.C_SRL, OpCode.C_SRA, OpCode.MV}
OpsCI == {OpCode.C_ADDI, OpCode.C_ANDI, OpCode.C_ORI, OpCode.C_XORI,
          OpCode.C_SLLI, OpCode.C_SRLI, OpCode.C_SRAI, OpCode.C_BEZ,
          OpCode.C_BNZ, OpCode.C_LI, OpCode.C_CALL, OpCode.C_BREAK}

\* enum Instruction: the four variants
Register(op, dst, src1, src2) ==
    [kind |-> "Register", op |-> op, dst |-> dst, src1 |-> src1, src2 |-> src2]
Immediate(op, dst, src1, imm) ==
    [kind |-> "Immediate", op |-> op, dst |-> dst, src1 |-> src1, imm |-> imm]
Store(op, src1, src2, imm) ==
    [kind |-> "Store", op |-> op, src1 |-> src1, src2 |-> src2, imm |-> imm]
Upper(op, dst, imm) ==
    [kind |-> "Upper", op |-> op, dst |-> dst, imm |-> imm]

\* a size decided by the variant together with the opcode: 2 only for a
\* compressed opcode in the variant try_from decodes it to
size_ByShape(i) ==
    IF \/ i.kind = "Register" /\ i.op \in OpsCR
       \/ i.kind = "Immediate" /\ i.op \in OpsCI \cup {OpCode.C_LOAD}
       \/ i.kind = "Store" /\ i.op = OpCode.C_STORE
       \/ i.kind = "Upper" /\ i.op = OpCode.C_LUI
    THEN 2 ELSE 4

\* Instruction::size
size(i) == IF BitAnd(i.op, 1) = 0 THEN 4 ELSE 2

\* a register field of write_bytes: ((r as u32) << shift) & mask
RegField(r, shift, mask) == BitAnd(Shl(r, shift), mask)

\* write_bytes, size 2: the u32 built before `instr as u16`
Encode2(i) ==
    CASE i.kind = "Register" ->
            BitOr(BitOr(BitAnd(i.op, OP_CODE_MASK),
                        RegField(i.dst, DST_REG_SHIFT, DST_REG_MASK)),
                  RegField(i.src2, SRC1_REG_SHIFT, SRC1_REG_MASK))
      [] i.kind = "Immediate" ->
            IF i.op = OpCode.C_LOAD
            THEN BitOr(BitOr(BitOr(BitOr(BitAnd(i.op, OP_CODE_MASK),
                        RegField(i.dst, C_DST2_REG_SHIFT, C_DST2_REG_MASK)),
                        RegField(i.src1, C_SRC1_REG_SHIFT, C_SRC1_REG_MASK)),
                        BitAnd(Shl(i.imm, C_IMM_STORE_SHIFT1), C_IMM_STORE_MASK1)),
                        BitAnd(Shl(i.imm, C_IMM_STORE_SHIFT2), C_IMM_STORE_MASK2))
            ELSE BitOr(BitOr(BitAnd(i.op, OP_CODE_MASK),
                        RegField(i.dst, C_DST1_REG_SHIFT, C_DST1_REG_MASK)),
                        BitAnd(Shl(i.imm, C_IMM_SHIFT), C_IMM_MASK))
      [] i.kind = "Store" ->
            BitOr(BitOr(BitOr(BitOr(BitAnd(i.op, OP_CODE_MASK),
                        RegField(i.src1, C_DST2_REG_SHIFT, C_DST2_REG_MASK)),
                        RegField(i.src2, C_SRC1_REG_SHIFT, C_SRC1_REG_MASK)),
                        BitAnd(Shl(i.imm, C_IMM_STORE_SHIFT1), C_IMM_STORE_MASK1)),
                        BitAnd(Shl(i.imm, C_IMM_STORE_SHIFT2), C_IMM_STORE_MASK2))
      [] i.kind = "Upper" ->
            BitOr(BitOr(BitAnd(i.op, OP_CODE_MASK),
                        RegField(i.dst, C_DST1_REG_SHIFT, C_DST1_REG_MASK)),
                        BitAnd(Shr(i.imm, C_IMM_UPPER_SHIFT), C_IMM_MASK))

\* write_bytes, size 4: the u32 written
Encode4(i) ==
    CASE i.kind = "Register" ->
            BitOr(BitOr(BitOr(BitAnd(i.op, OP_CODE_MASK),
                        RegField(i.dst, DST_REG_SHIFT, DST_REG_MASK)),
                        RegField(i.src1, SRC1_REG_SHIFT, SRC1_REG_MASK)),
                        RegField(i.src2, SRC2_REG_SHIFT, SRC2_REG_MASK))
      [] i.kind = "Immediate" ->
            BitOr(BitOr(BitOr(BitAnd(i.op, OP_CODE_MASK),
                        RegField(i.dst, DST_REG_SHIFT, DST_REG_MASK)),
                        RegField(i.src1, SRC1_REG_SHIFT, SRC1_REG_MASK)),
                        BitAnd(Shl(i.imm, IMM_SHIFT), IMM_MASK))
      [] i.kind = "Store" ->
            BitOr(BitOr(BitOr(BitOr(BitAnd(i.op, OP_CODE_MASK),
                        RegField(i.src1, SRC1_REG_SHIFT, SRC1_REG_MASK)),
                        RegField(i.src2, SRC2_REG_SHIFT, SRC2_REG_MASK)),
                        BitAnd(Shl(i.imm, IMM_STORE_SHIFT1), IMM_STORE_MASK1)),
                        BitAnd(Shl(i.imm, IMM_STORE_SHIFT2), IMM_STORE_MASK2))
      [] i.kind = "Upper" ->
            BitOr(BitOr(BitAnd(i.op, OP_CODE_MASK),
                        RegField(i.dst, DST_REG_SHIFT, DST_REG_MASK)),
                        BitAnd(i.imm, IMM_MASK))

\* Instruction::write_bytes: b with the little-endian bytes of i appended
write_bytes(i, b) ==
    IF size(i) = 2
    THEN b \o <<ByteOf(Encode2(i), 0), ByteOf(Encode2(i), 1)>>
    ELSE b \o <<ByteOf(Encode4(i), 0), ByteOf(Encode4(i), 1),
                ByteOf(Encode4(i), 2), ByteOf(Encode4(i), 3)>>

\* a register field of try_from: ((instr & mask) >> shift) as usize
RegOf(w, mask, shift) == Shr(BitAnd(w, mask), shift)

\* ImmI with a logical shift in place of the arithmetic one: no sign extension
ImmI_ZeroExtended(w) == Shr(BitAnd(w, IMM_MASK), IMM_SHIFT)

\* the immediates of try_from, one per arm
ImmI(w) == Sar(BitAnd(w, IMM_MASK), IMM_SHIFT)
ImmS(w) ==
    BitOr(Shr(BitAnd(w, IMM_STORE_MASK1), IMM_STORE_SHIFT1),
          Sar(BitAnd(w, IMM_STORE_MASK2), IMM_STORE_SHIFT2))
ImmU(w) == BitAnd(w, IMM_MASK)
ImmCI(w) == Sar(Shl(BitAnd(w, C_IMM_MASK), 16), C_IMM_SHIFT + 16)
\* ImmCL with `as u16 as u32` in place of `as i16 as i32`: no sign extension
ImmCL_ZeroExtended(w) ==
    BitOr(Shr(BitAnd(w, C_IMM_STORE_MASK1), C_IMM_STORE_SHIFT1),
          Shr(Shl(BitAnd(w, C_IMM_STORE_MASK2), 16), C_IMM_STORE_SHIFT2 + 16))
ImmCL(w) ==
    BitOr(Shr(BitAnd(w, C_IMM_STORE_MASK1), C_IMM_STORE_SHIFT1),
          Sar(Shl(BitAnd(w, C_IMM_STORE_MASK2), 16), C_IMM_STORE_SHIFT2 + 16))
\* ImmCU with the field moved to bits 7-13 of the value
ImmCU_ShiftedBySeven(w) == Sar(Shl(BitAnd(w, C_IMM_MASK), 16), 16 + C_IMM_SHIFT - 7)

ImmCU(w) == Sar(Shl(BitAnd(w, C_IMM_MASK), 16), 16 - C_IMM_UPPER_SHIFT)

InvalidOpCode(op) == [kind |-> "Err", error |-> "InvalidOpCode", arg |-> op]

\* <Instruction as TryFrom<u32>>::try_from
try_from(w) ==
    LET op == BitAnd(w, OP_CODE_MASK)
    IN  IF op \notin OpCodes THEN InvalidOpCode(op)
        ELSE IF op \in OpsR THEN
            Register(op, RegOf(w, DST_REG_MASK, DST_REG_SHIFT),
                         RegOf(w, SRC1_REG_MASK, SRC1_REG_SHIFT),
                         RegOf(w, SRC2_REG_MASK, SRC2_REG_SHIFT))
        ELSE IF op \in OpsI THEN
            Immediate(op, RegOf(w, DST_REG_MASK, DST_REG_SHIFT),
                          RegOf(w, SRC1_REG_MASK, SRC1_REG_SHIFT), ImmI(w))
        ELSE IF op \in OpsS THEN
            Store(op, RegOf(w, SRC1_REG_MASK, SRC1_REG_SHIFT),
                      RegOf(w, SRC2_REG_MASK, SRC2_REG_SHIFT), ImmS(w))
        ELSE IF op = OpCode.LUI THEN
            Upper(op, RegOf(w, DST_REG_MASK, DST_REG_SHIFT), ImmU(w))
        ELSE IF op \in OpsCR THEN
            Register(op, RegOf(w, DST_REG_MASK, DST_REG_SHIFT),
                         RegOf(w, DST_REG_MASK, DST_REG_SHIFT),
                         RegOf(w, SRC1_REG_MASK, SRC1_REG_SHIFT))
        ELSE IF op \in OpsCI THEN
            Immediate(op, RegOf(w, C_DST1_REG_MASK, C_DST1_REG_SHIFT),
                          RegOf(w, C_DST1_REG_MASK, C_DST1_REG_SHIFT), ImmCI(w))
        ELSE IF op = OpCode.C_LOAD THEN
            Immediate(op, RegOf(w, C_DST2_REG_MASK, C_DST2_REG_SHIFT),
                          RegOf(w, C_SRC1_REG_MASK, C_SRC1_REG_SHIFT), ImmCL(w))
        ELSE IF op = OpCode.C_STORE THEN
            Store(op, RegOf(w, C_DST2_REG_MASK, C_DST2_REG_SHIFT),
                      RegOf(w, C_SRC1_REG_MASK, C_SRC1_REG_SHIFT), ImmCL(w))
        ELSE
            \* C_LUI
            Upper(op, RegOf(w, C_DST1_REG_MASK, C_DST1_REG_SHIFT), ImmCU(w))

---------------------------------------------------------------------------
(* The execution core (src/src/vm.rs) *)

\* Memory::read_u32: the result of read into [0; 4]
read_u32(m, addr) == read(m, addr, <<0, 0, 0, 0>>)

\* Memory::write_u32
write_u32(m, addr, value) ==
    write(m, addr, <<ByteOf(value, 0), ByteOf(value, 1),
                     ByteOf(value, 2), ByteOf(value, 3)>>)

\* what exec_instr and run return, and a panic of the thread
OkNone == [kind |-> "OkNone"]
OkSome(v) == [kind |-> "Ok", value |-> v]
\* InvalidSysCall carrying the number as i16
InvalidSysCall_Signed(call) ==
    [kind |-> "Err", error |-> "InvalidSysCall",
     arg |-> IF call >= 32768 THEN call - 65536 ELSE call]

InvalidSysCall(call) == [kind |-> "Err", error |-> "InvalidSysCall", arg |-> call]
Panic == [kind |-> "Panic"]

\* reset with the stack pointer left at 0
reset_ZeroStackPtr(regs) == [regs EXCEPT ![0] = 0, ![1] = 0]

\* VirtualMachine::reset
reset(regs) == [regs EXCEPT ![0] = 0, ![1] = -4]

\* VirtualMachine::new (page_size = DEFAULT_PAGE_SIZE) and with_page_size, for
\* a program that passes the length check
VirtualMachine_new(page_size, prog) ==
    [memory    |-> write(Memory_new(page_size), 0, prog),
     registers |-> reset([k \in 0 .. 31 |-> 0])]

\* RegisterValue with sra and c.sra shifting zeros in, as srl does
RegisterValue_LogicalSra(op, src1, src2) ==
    CASE op \in {OpCode.ADD, OpCode.C_ADD} -> wrapping_add(src1, src2)
      [] op \in {OpCode.SUB, OpCode.C_SUB} -> wrapping_sub(src1, src2)
      [] op \in {OpCode.AND, OpCode.C_AND} -> BitAnd(src1, src2)
      [] op \in {OpCode.OR, OpCode.C_OR}   -> BitOr(src1, src2)
      [] op \in {OpCode.XOR, OpCode.C_XOR} -> BitXor(src1, src2)
      [] op \in {OpCode.SLL, OpCode.C_SLL} -> Shl(src1, BitAnd(src2, 31))
      [] op \in {OpCode.SRL, OpCode.C_SRL, OpCode.SRA, OpCode.C_SRA} ->
            Shr(src1, BitAnd(src2, 31))
      [] op = OpCode.MV -> src2

\* the value the Register arm stores in dst
RegisterValue(op, src1, src2) ==
    CASE op \in {OpCode.ADD, OpCode.C_ADD} -> wrapping_add(src1, src2)
      [] op \in {OpCode.SUB, OpCode.C_SUB} -> wrapping_sub(src1, src2)
      [] op \in {OpCode.AND, OpCode.C_AND} -> BitAnd(src1, src2)
      [] op \in {OpCode.OR, OpCode.C_OR}   -> BitOr(src1, src2)
      [] op \in {OpCode.XOR, OpCode.C_XOR} -> BitXor(src1, src2)
      [] op \in {OpCode.SLL, OpCode.C_SLL} -> Shl(src1, BitAnd(src2, 31))
      [] op \in {OpCode.SRL, OpCode.C_SRL} -> Shr(src1, BitAnd(src2, 31))
      [] op \in {OpCode.SRA, OpCode.C_SRA} -> Sar(src1, BitAnd(src2, 31))
      [] op = OpCode.MV -> src2

\* the value the Immediate arm stores in dst, for the opcodes that only compute
ImmediateValue(op, src1, imm) ==
    CASE op \in {OpCode.ADDI, OpCode.C_ADDI} -> wrapping_add(src1, imm)
      [] op \in {OpCode.ANDI, OpCode.C_ANDI} -> BitAnd(src1, imm)
      [] op \in {OpCode.ORI, OpCode.C_ORI}   -> BitOr(src1, imm)
      [] op \in {OpCode.XORI, OpCode.C_XORI} -> BitXor(src1, imm)
      [] op \in {OpCode.SLLI, OpCode.C_SLLI} -> Shl(src1, BitAnd(imm, 31))
      [] op \in {OpCode.SRLI, OpCode.C_SRLI} -> Shr(src1, BitAnd(imm, 31))
      [] op \in {OpCode.SRAI, OpCode.C_SRAI} -> Sar(src1, BitAnd(imm, 31))
      [] op \in {OpCode.LI, OpCode.C_LI}     -> imm

\* BranchTaken with blt.u and bge.u comparing as signed numbers
BranchTaken_SignedOnly(op, src1, src2) ==
    CASE op = OpCode.BEQ   -> src1 = src2
      [] op = OpCode.BNE   -> src1 # src2
      [] op \in {OpCode.BLT, OpCode.BLT_U} -> src1 < src2
      [] op \in {OpCode.BGE, OpCode.BGE_U} -> src1 >= src2

\* the condition of a Store-shape branch
BranchTaken(op, src1, src2) ==
    CASE op = OpCode.BEQ   -> src1 = src2
      [] op = OpCode.BNE   -> src1 # src2
      [] op = OpCode.BLT   -> src1 < src2
      [] op = OpCode.BGE   -> src1 >= src2
      [] op = OpCode.BLT_U -> ULess(src1, src2)
      [] op = OpCode.BGE_U -> ~ULess(src1, src2)

\* enum FileFlags, by bit pattern
FileFlags == [READ |-> 1, WRITE |-> 2, CREATE |-> 4, EXCLUSIVE |-> 8,
              TRUNCATE |-> 16, APPEND |-> 32]

\* What the host answers to a call on its files: an io::Error, or Ok with the
\* number of bytes it transferred (read, write), or Ok (open, sync_all).
\* The buffers that write, open and create fill from the memory have at most
\* MaxBuf bytes here (none when the length in the register is larger).
MaxIo == 2
MaxBuf == 4
HostErr == [ok |-> FALSE, n |-> 0]
HostOk(n) == [ok |-> TRUE, n |-> n]
HostAnswers(regs, i) ==
    IF /\ i.kind = "Immediate" /\ i.op \in {OpCode.CALL, OpCode.C_CALL}
       /\ Lo(i.imm) \in 1 .. 5
    THEN IF \/ Lo(i.imm) = 2 /\ regs[6] \notin 0 .. MaxBuf
            \/ Lo(i.imm) \in {3, 5} /\ regs[5] \notin 0 .. MaxBuf
         THEN {}
         ELSE {HostErr} \cup {HostOk(n) : n \in 0 .. MaxIo}
    ELSE IF i.kind = "Immediate" /\ i.op \in {OpCode.BREAK, OpCode.C_BREAK}
    \* breakpoints_enabled, a public field (bin/main.rs:92), is false
    \* (HostOk(0)) or true: read_line then read a line or failed
    THEN {HostOk(0), HostOk(1), HostErr}
    ELSE {HostOk(0)}

\* the k bytes the host delivers to a read, and vec![0; len]
HostBytes(k) == [n \in 1 .. k |-> 64 + n]
Zeroed(len) == [n \in 1 .. len |-> 0]

\* i <= buf.len() of the bytes the host transferred, for a buffer of len bytes
Transferred(host, len) == IF ULess(len, host.n) THEN len ELSE host.n

\* self.file_handles.get_mut(d as usize - 3) is Some; d is not 0, 1 or 2
IsOpen(vm, d) == wrapping_sub(d, 3) \in DOMAIN vm.file_handles

\* VecMap::insert and VecMap::remove
VecMap_insert(map, key, value) ==
    [k \in DOMAIN map \cup {key} |-> IF k = key THEN value ELSE map[k]]
VecMap_remove(map, key) == [k \in DOMAIN map \ {key} |-> map[k]]

\* self.registers[3] = r.unwrap_or_else(|e| { println!("{}", e); -1i32 as u32 })
Returned(vm, value) == [vm EXCEPT !.registers[3] = value]

\* the call passed to the host
HostCall(op, handle, bytes, n) ==
    [op |-> op, handle |-> handle, bytes |-> bytes, n |-> n]

\* VirtualMachine::read_file
read_file(vm, handle, ptr, len, host) ==
    IF handle \in {1, 2} THEN Returned(vm, -1)
    ELSE IF handle # 0 /\ ~IsOpen(vm, handle) THEN Returned(vm, -1)
    ELSE IF ~host.ok
    THEN Returned([vm EXCEPT !.io = HostCall("read", handle, <<>>, -1)], -1)
    ELSE LET i == Transferred(host, len)
         IN  Returned([vm EXCEPT !.memory = write(vm.memory, ptr, HostBytes(i)),
                                 !.io = HostCall("read", handle, HostBytes(i), i)],
                      i)

\* VirtualMachine::write_file
write_file(vm, handle, ptr, len, host) ==
    LET r == read(vm.memory, ptr, Zeroed(len))
        v == [vm EXCEPT !.oob = r.oob]
    IN  IF r.panic THEN [vm EXCEPT !.ret = Panic]
        ELSE IF handle = 0 THEN Returned(v, -1)
        ELSE IF handle \notin {1, 2} /\ ~IsOpen(vm, handle) THEN Returned(v, -1)
        ELSE IF ~host.ok
        THEN Returned([v EXCEPT !.io = HostCall("write", handle, r.buf, -1)], -1)
        ELSE LET i == Transferred(host, len)
             IN  Returned([v EXCEPT !.io = HostCall("write", handle, r.buf, i)], i)

\* OpenOptions::open returns an error whatever the host holds: no path, a NUL
\* byte in the path, no access mode, or create / truncate without write access
OpenRefused(path, flags) ==
    LET may(flag) == BitAnd(flags, flag) # 0
    IN  \/ path = <<>>
        \/ \E k \in 1 .. Len(path) : path[k] = 0
        \/ ~may(FileFlags.READ) /\ ~may(FileFlags.WRITE) /\ ~may(FileFlags.APPEND)
        \/ /\ ~may(FileFlags.WRITE) /\ ~may(FileFlags.APPEND)
           /\ may(FileFlags.CREATE) \/ may(FileFlags.EXCLUSIVE) \/ may(FileFlags.TRUNCATE)
        \/ may(FileFlags.APPEND) /\ may(FileFlags.TRUNCATE) /\ ~may(FileFlags.EXCLUSIVE)

\* the handle after the last one of the table, as a table without gaps gives
FreeSlot_AfterLast(map) == Cardinality(DOMAIN map)

\* the first handle in 0 .. that the table does not contain
FreeSlot(map) == CHOOSE k \in 0 .. Cardinality(DOMAIN map) :
    k \notin DOMAIN map /\ \A n \in 0 .. k - 1 : n \in DOMAIN map

\* VirtualMachine::open_file
open_file(vm, ptr, len, flags, host) ==
    LET r == read(vm.memory, ptr, Zeroed(len))
        v == [vm EXCEPT !.oob = r.oob]
        slot == FreeSlot(vm.file_handles)
    IN  IF r.panic THEN [vm EXCEPT !.ret = Panic]
        ELSE IF OpenRefused(r.buf, flags) \/ ~host.ok
        THEN Returned([v EXCEPT !.io = HostCall("open", -1, r.buf, flags)], -1)
        ELSE Returned([v EXCEPT
                !.file_handles = VecMap_insert(vm.file_handles, slot,
                                               [path |-> r.buf, flags |-> flags]),
                !.io = HostCall("open", slot + 3, r.buf, flags)],
             slot + 3)

\* VirtualMachine::close_file; handle as usize - 3 overflows for 0, 1 and 2
close_file(vm, handle, checks, host) ==
    IF ULess(handle, 3) THEN
        IF checks THEN [vm EXCEPT !.ret = Panic] ELSE Returned(vm, -1)
    ELSE IF ~IsOpen(vm, handle) THEN Returned(vm, -1)
    ELSE Returned([vm EXCEPT
            !.file_handles = VecMap_remove(vm.file_handles, wrapping_sub(handle, 3)),
            !.io = HostCall("close", handle, <<>>, IF host.ok THEN 0 ELSE -1)],
         IF host.ok THEN 0 ELSE -1)

\* VirtualMachine::create_file
create_file(vm, ptr, len, host) ==
    open_file(vm, ptr, len,
              BitOr(BitOr(FileFlags.CREATE, FileFlags.WRITE), FileFlags.TRUNCATE),
              host)

\* VirtualMachine::exec_syscall(call) on vm = [memory, registers, file_handles,
\* io, ret, oob]; host is what the host answers
exec_syscall(vm, call, checks, host) ==
    LET r == vm.registers
    IN  CASE call = 0 -> [vm EXCEPT !.ret = OkSome(r[4])]
          [] call = 1 -> read_file(vm, r[4], r[5], r[6], host)
          [] call = 2 -> write_file(vm, r[4], r[5], r[6], host)
          [] call = 3 -> open_file(vm, r[4], r[5], r[6], host)
          [] call = 4 -> close_file(vm, r[4], checks, host)
          [] call = 5 -> create_file(vm, r[4], r[5], host)
          [] OTHER -> [vm EXCEPT !.ret = InvalidSysCall(call)]

\* BranchBase with the PC as it was before the increment by 4
BranchBase_BeforeIncrement(regs) == wrapping_sub(regs[0], 4)

\* the base a Store-shape branch adds its offset to: registers[0] as i32, read
\* after the increment
BranchBase(regs) == regs[0]

\* a BREAK that returns from run with status 0
Breakpoint_EndsRun(vm, host) == [vm EXCEPT !.ret = OkSome(0)]

\* BREAK | C_BREAK: with breakpoints enabled the registers are printed and
\* io::stdin().read_line(..).ok() waits for a line; return Ok(None)
Breakpoint(vm, host) ==
    IF host = HostOk(0) THEN vm
    ELSE [vm EXCEPT !.io = HostCall("breakpoint", 0, <<>>,
                                    IF host.ok THEN 0 ELSE -1)]

\* OperandRegisters read before the increment of registers[0]
OperandRegisters_BeforeIncrement(regs, pc) == regs

\* the registers as the arms of exec_instr read them: after the increment of
\* registers[0] to pc
OperandRegisters(regs, pc) == [regs EXCEPT ![0] = pc]

\* VirtualMachine::exec_instr(i) from memory m and registers regs: the VM after
\* it as [memory, registers, ret, oob], ret what it returned (or Panic), oob
\* whether a read wrote past its buffer
exec_instr(m, regs, files, last, i, checks, host) ==
    LET pc   == wrapping_add(regs[0], size(i))
        vm   == [memory |-> m, registers |-> [regs EXCEPT ![0] = pc],
                 file_handles |-> files, io |-> last,
                 ret |-> OkNone, oob |-> FALSE]
        r    == OperandRegisters(regs, pc)
    IN  \* *self.program_ctr_mut() += instr.size()
        IF checks /\ ULess(pc, regs[0])
        THEN [memory |-> m, registers |-> regs, file_handles |-> files,
              io |-> last, ret |-> Panic, oob |-> FALSE]
        ELSE
        CASE i.kind = "Register" ->
                \* _ => unreachable!("{:?}", op)
                IF i.op \notin OpsR \cup OpsCR THEN [vm EXCEPT !.ret = Panic]
                ELSE [vm EXCEPT !.registers[i.dst] =
                        RegisterValue(i.op, r[i.src1], r[i.src2])]
          [] i.kind = "Immediate" ->
                IF i.op \notin OpsI \cup OpsCI \cup {OpCode.C_LOAD}
                THEN [vm EXCEPT !.ret = Panic]
                ELSE IF i.op \in {OpCode.BEZ, OpCode.C_BEZ} THEN
                    IF r[i.src1] = 0
                    THEN [vm EXCEPT !.registers[0] = wrapping_add(r[0], i.imm)]
                    ELSE vm
                ELSE IF i.op \in {OpCode.BNZ, OpCode.C_BNZ} THEN
                    IF r[i.src1] # 0
                    THEN [vm EXCEPT !.registers[0] = wrapping_add(r[0], i.imm)]
                    ELSE vm
                ELSE IF i.op \in {OpCode.LOAD, OpCode.C_LOAD} THEN
                    LET l == read_u32(m, wrapping_add(r[i.src1], i.imm))
                    IN  IF l.panic THEN [vm EXCEPT !.ret = Panic]
                        ELSE [vm EXCEPT !.registers[i.dst] = LeWord(l.buf),
                                        !.oob = l.oob]
                ELSE IF i.op \in {OpCode.CALL, OpCode.C_CALL} THEN
                    exec_syscall(vm, Lo(i.imm), checks, host)
                ELSE IF i.op \in {OpCode.BREAK, OpCode.C_BREAK}
                THEN Breakpoint(vm, host)
                ELSE [vm EXCEPT !.registers[i.dst] =
                        ImmediateValue(i.op, r[i.src1], i.imm)]
          [] i.kind = "Store" ->
                IF i.op \notin OpsS \cup {OpCode.C_STORE}
                THEN [vm EXCEPT !.ret = Panic]
                ELSE IF i.op \in {OpCode.STORE, OpCode.C_STORE}
                THEN [vm EXCEPT !.memory =
                        write_u32(m, wrapping_add(r[i.src1], i.imm), r[i.src2])]
                ELSE IF BranchTaken(i.op, r[i.src1], r[i.src2])
                THEN [vm EXCEPT !.registers[0] =
                        wrapping_add(BranchBase(r), i.imm)]
                ELSE vm
          [] i.kind = "Upper" ->
                IF i.op \notin {OpCode.LUI, OpCode.C_LUI}
                THEN [vm EXCEPT !.ret = Panic]
                ELSE [vm EXCEPT !.registers[i.dst] = i.imm]

---------------------------------------------------------------------------
(* The assembler (src/src/bin/assembler/parser.rs), from the parsed lines on *)

\* enum ImmediatePlaceholder
Value(n) == [kind |-> "Value", value |-> n]
LabelAbsolute(l) == [kind |-> "LabelAbsolute", label |-> l]
LabelRelative(l) == [kind |-> "LabelRelative", label |-> l]

\* enum InstructionPlaceholder: the variants of Instruction with an
\* ImmediatePlaceholder as imm, and StringLiteral
StringLiteral(b) == [kind |-> "StringLiteral", bytes |-> b]

\* the placeholders the parsers of the operand lists build
instruction_r(op, dst, src1, src2) == Register(op, dst, src1, src2)
instruction_cr(op, dst, src2) == Register(op, dst, dst, src2)
instruction_i(op, dst, src1, imm) == Immediate(op, dst, src1, imm)
instruction_ci(op, dst, imm) == Immediate(op, dst, dst, imm)
instruction_call(op, imm) == Immediate(op, 0, 0, imm)
instruction_break(op) == Immediate(op, 0, 0, Value(0))
instruction_s(op, src1, src2, imm) == Store(op, src1, src2, imm)
instruction_u(op, dst, imm) == Upper(op, dst, imm)

\* what parse_line returns for a line: (label, instr), each of them optional
\* (label "" and instr None when absent), or an error (instr Unparsable)
Line(label, ph) == [label |-> label, instr |-> ph]
Unparsable == [kind |-> "Unparsable"]

\* InstructionPlaceholder::size
placeholder_size(ph) ==
    IF ph.kind = "StringLiteral" THEN Len(ph.bytes)
    ELSE IF BitAnd(ph.op, 1) = 0 THEN 4 ELSE 2

\* the errors of parse
LabelNotFound(l) == [kind |-> "Err", error |-> "Label not found", label |-> l]
ErrorOnLine(n) == [kind |-> "Err", error |-> "error on line", line |-> n]

\* an assembler that emits the address of the label for $label as it does
\* for %label
LabelOffset_Absolute(label, pos) == label

\* LabelRelative: (imm as i32 - pos as i32) as u32
LabelOffset(label, pos) == wrapping_sub(label, pos)

\* into_instr with a label that is not found taken as address 0
into_instr_MissingIsZero(ph, labels, pos) ==
    IF ph.kind = "Register" THEN ph
    ELSE IF ph.imm.kind = "Value" THEN [ph EXCEPT !.imm = ph.imm.value]
    ELSE LET address == IF ph.imm.label \in DOMAIN labels
                        THEN labels[ph.imm.label] ELSE 0
         IN  IF ph.imm.kind = "LabelAbsolute"
             THEN [ph EXCEPT !.imm = address]
             ELSE [ph EXCEPT !.imm = LabelOffset(address, pos)]

\* InstructionPlaceholder::into_instr: the Instruction, or the error
into_instr(ph, labels, pos) ==
    IF ph.kind = "Register" THEN ph
    ELSE IF ph.imm.kind = "Value" THEN [ph EXCEPT !.imm = ph.imm.value]
    ELSE IF ph.imm.label \notin DOMAIN labels THEN LabelNotFound(ph.imm.label)
    ELSE IF ph.imm.kind = "LabelAbsolute"
         THEN [ph EXCEPT !.imm = labels[ph.imm.label]]
         ELSE [ph EXCEPT !.imm = LabelOffset(labels[ph.imm.label], pos)]

\* labels.insert(label, length)
Insert(labels, label, length) ==
    [l \in DOMAIN labels \cup {label} |->
        IF l = label THEN length ELSE labels[l]]

\* pass one of parse from line k on: [labels, instrs], or the error
RECURSIVE PassOne(_, _, _, _, _)
PassOne(lines, k, labels, instrs, length) ==
    IF k > Len(lines) THEN [kind |-> "Ok", labels |-> labels, instrs |-> instrs]
    ELSE IF lines[k].instr = Unparsable THEN ErrorOnLine(k)
    ELSE
        LET labels1 == IF lines[k].label # ""
                       THEN Insert(labels, lines[k].label, length)
                       ELSE labels
        IN  IF lines[k].instr = None
            THEN PassOne(lines, k + 1, labels1, instrs, length)
            ELSE PassOne(lines, k + 1, labels1, Append(instrs, lines[k].instr),
                         length + placeholder_size(lines[k].instr))

\* pass two of parse from the k-th placeholder on: the bytes, or the error
RECURSIVE PassTwo(_, _, _, _, _)
PassTwo(instrs, labels, k, bytes, length) ==
    IF k > Len(instrs) THEN [kind |-> "Ok", bytes |-> bytes]
    ELSE
        LET length1 == length + placeholder_size(instrs[k])
        IN  IF instrs[k].kind = "StringLiteral"
            THEN PassTwo(instrs, labels, k + 1, bytes \o instrs[k].bytes, length1)
            ELSE LET i == into_instr(instrs[k], labels, length1)
                 IN  IF i.kind = "Err" THEN i
                     ELSE PassTwo(instrs, labels, k + 1, write_bytes(i, bytes),
                                  length1)

\* parse: Ok(bytes) or Err
parse(lines) ==
    LET one == PassOne(lines, 1, <<>>, <<>>, 0)
    IN  IF one.kind = "Err" THEN one
        ELSE PassTwo(one.instrs, one.labels, 1, <<>>, 0)

---------------------------------------------------------------------------
(* The calls a user of Memory makes (SpecMem): page_mut, write and read on  *)
(* one Memory, with addresses around the page boundaries and the 2^32 wrap. *)

MaxLen == 6        \* longest buffer passed to write and read
MaxWrites == 1     \* number of page_mut and write calls in one behaviour

MemPageSize == 4   \* Memory::with_page_size(4): ranges of MaxLen bytes span pages

\* addresses: start of memory, the last (unaligned) byte of page 0, and the
\* last bytes of the address space (0xfffffffd, 0xffffffff)
MemAddrs == {0, MemPageSize - 1, -3, -1}

\* the buffers written: byte k of the buffer is 16 + k, so no two bytes agree
Pattern(len) == [k \in 1 .. len |-> 16 + k]

\* what the caller's buffer holds before a read: 0xaa everywhere
Stale(len) == [k \in 1 .. len |-> 170]

InitMem ==
    /\ memory = Memory_new(MemPageSize)
    /\ registers = <<>>
    /\ status = "running"
    /\ program = <<>>
    /\ result = None
    /\ overflow_checks = FALSE
    /\ file_handles = <<>> /\ io = None
    /\ calls = <<>>
    /\ buf = <<>>
    /\ instr = None /\ code = <<>> /\ decoded = None
    /\ source = <<>> /\ assembled = None /\ twin = None

\* the page_mut and write calls made so far; calls is these and the newest read
Mutations == SelectSeq(calls, LAMBDA c : c.op # "read")
Writes == Len(Mutations)

\* let page = mem.page_mut(index)
DoPageMut(index) ==
    /\ status = "running"
    /\ Writes < MaxWrites
    /\ memory' = page_mut(memory, index)
    /\ calls' = Append(Mutations, [op |-> "page_mut", addr |-> index, data |-> <<>>])
    /\ UNCHANGED <<registers, status, program, result, overflow_checks, fileVars,
                   buf, codecVars, asmVars, twin>>

\* mem.write(addr, &b)
DoWrite(addr, b) ==
    /\ status = "running"
    /\ Writes < MaxWrites
    /\ memory' = write(memory, addr, b)
    /\ calls' = Append(Mutations, [op |-> "write", addr |-> addr, data |-> b])
    /\ UNCHANGED <<registers, status, program, result, overflow_checks, fileVars,
                   buf, codecVars, asmVars, twin>>

\* What becomes of the process after a call that wrote past the end of a buffer
\* (undefined behaviour): it goes on, or it is killed.
AfterOob == {"running", "crashed"}

\* mem.read(addr, &mut b)
DoRead(addr, b) ==
    /\ status = "running"
    /\ LET r == read(memory, addr, b)
       IN  /\ buf' = r.buf
           /\ status' \in IF r.panic THEN {"panicked"}
                          ELSE IF r.oob THEN AfterOob
                          ELSE {"running"}
    /\ calls' = Append(Mutations, [op |-> "read", addr |-> addr, data |-> b])
    /\ UNCHANGED <<memory, registers, program, result, overflow_checks, fileVars,
                   codecVars, asmVars, twin>>

NextMem ==
    \/ \E index \in {0, 1} : DoPageMut(index)
    \/ \E addr \in MemAddrs, len \in 0 .. MaxLen : DoWrite(addr, Pattern(len))
    \/ \E addr \in MemAddrs, len \in 0 .. MaxLen : DoRead(addr, Stale(len))

SpecMem == InitMem /\ [][NextMem]_vars

---------------------------------------------------------------------------
(* A guest program run by the machine (SpecVM): VirtualMachine::new(program),  *)
(* the embedder's writes to the public registers, then the loop of run().      *)

\* the values of r2 and r3 set by the embedder before run(): pairs of 0, 1,
\* 0xffffffff and 0x80000000 that are equal, or ordered differently as signed
\* and as unsigned numbers
VmPairs == {<<0, 1>>, <<1, 0>>, <<1, 1>>, <<-1, 1>>, <<1, -1>>,
            <<(-2) * 2^30, -1>>, <<-1, (-2) * 2^30>>, <<(-2) * 2^30, 0>>,
            <<-1, 32>>, <<-8, 33>>}

\* branch offsets: forwards, backwards, onto the branch itself
BranchImms == {8, 4, -4, -8}

\* the instructions run
VmInstrs ==
    {Immediate(op, s, s, imm) : op \in {OpCode.BEZ, OpCode.BNZ}, s \in {0, 2},
                                imm \in BranchImms}
    \cup {Immediate(op, s, s, imm) : op \in {OpCode.C_BEZ, OpCode.C_BNZ}, s \in {0, 2},
                                     imm \in {4, -2, -4}}
    \cup {Store(op, p[1], p[2], imm) :
            op \in OpsS \ {OpCode.STORE}, p \in {<<2, 3>>, <<0, 2>>, <<1, 1>>},
            imm \in BranchImms}
    \cup {Register(op, 2, 2, 3) : op \in OpsR}
    \cup {Register(op, 2, 2, 3) : op \in OpsCR}
    \cup {Register(OpCode.ADD, 0, 0, 1), Register(OpCode.ADD, 2, 0, 0),
          Register(OpCode.C_ADD, 0, 0, 2), Register(OpCode.MV, 0, 0, 3)}
    \cup {Immediate(op, 2, 3, 4) :
            op \in {OpCode.ADDI, OpCode.ANDI, OpCode.ORI, OpCode.XORI, OpCode.SLLI,
                    OpCode.SRLI, OpCode.SRAI, OpCode.LI}}
    \cup {Immediate(op, 2, 2, -4) :
            op \in {OpCode.C_ADDI, OpCode.C_ANDI, OpCode.C_ORI, OpCode.C_XORI,
                    OpCode.C_SLLI, OpCode.C_SRLI, OpCode.C_SRAI, OpCode.C_LI}}
    \cup {Immediate(op, 2, 2, 32) :
            op \in {OpCode.SLLI, OpCode.SRLI, OpCode.SRAI,
                    OpCode.C_SLLI, OpCode.C_SRLI, OpCode.C_SRAI}}
    \cup {Immediate(OpCode.ADDI, 0, 0, 4), Immediate(OpCode.C_ADDI, 0, 0, -2),
          Immediate(OpCode.LI, 0, 0, -4)}
    \cup {Immediate(OpCode.LOAD, 2, 3, imm) : imm \in {0, -4}}
    \cup {Immediate(OpCode.C_LOAD, 2, 3, 2), Immediate(OpCode.LOAD, 0, 0, -4)}
    \cup {Store(OpCode.STORE, 3, 2, imm) : imm \in {0, 8}}
    \cup {Store(OpCode.C_STORE, 3, 2, 2), Store(OpCode.STORE, 1, 0, 0)}
    \cup {Immediate(op, 0, 0, n) : op \in {OpCode.CALL, OpCode.C_CALL}, n \in {0, 1, 2, 3, 4, 5, 6, -1}}
    \cup {Immediate(OpCode.BREAK, 0, 0, 0), Immediate(OpCode.C_BREAK, 0, 0, 0)}
    \cup {Upper(OpCode.LUI, 2, 65536), Upper(OpCode.C_LUI, 0, -65536)}

\* the values of the low six bits that are no OpCode
ReservedOps == (0 .. 63) \ OpCodes

\* the words run: the encodings of VmInstrs, and words with a reserved opcode
VmWords ==
    {LeWord(write_bytes(i, <<>>)) : i \in VmInstrs}
    \cup {wrapping_add(b, hi * 64) : b \in ReservedOps, hi \in {0, -1}}

\* the little-endian bytes of a word: 2 for an odd opcode, else 4
WordBytes(w) ==
    IF w % 2 = 1 THEN <<ByteOf(w, 0), ByteOf(w, 1)>>
    ELSE <<ByteOf(w, 0), ByteOf(w, 1), ByteOf(w, 2), ByteOf(w, 3)>>

\* what precedes the word in the program: nothing, or c.break (2 bytes)
Prefixes == {<<>>, write_bytes(Immediate(OpCode.C_BREAK, 0, 0, 0), <<>>)}

\* VirtualMachine::with_page_size(16, program): a program of a few
\* instructions has unallocated pages next to it
VmPageSize == 16

\* c.li r6, 2; c.li r5, 20; call 1; call 2; call 0: two bytes are read
\* from the standard input to address 20 and written from there (16 bytes)
EchoProgram ==
    write_bytes(Immediate(OpCode.CALL, 0, 0, 0),
    write_bytes(Immediate(OpCode.CALL, 0, 0, 2),
    write_bytes(Immediate(OpCode.CALL, 0, 0, 1),
    write_bytes(Immediate(OpCode.C_LI, 5, 5, 20),
    write_bytes(Immediate(OpCode.C_LI, 6, 6, 2), <<>>)))))

\* the programs given to with_page_size: a word at address 0 or 2, and the
\* program above
Programs == {pre \o WordBytes(w) : pre \in Prefixes, w \in VmWords}
            \cup {EchoProgram}

\* the programs given to new: shorter than one instruction, and one instruction
\* (c.break; break; add r0, r0, r1; addi r0, r0, 4; call 0)
NewPrograms ==
    {<<>>, <<63>>, <<63, 0>>, <<63, 0, 2>>, <<62, 0, 0, 0>>, <<2, 0, 1, 0>>,
     <<18, 0, 4, 0>>, <<60, 0, 0, 0>>}

\* let mut vm = VirtualMachine::new(program)?  or
\* let mut vm = VirtualMachine::with_page_size(VmPageSize, program)?
InitVM ==
    /\ \E page_size \in {DEFAULT_PAGE_SIZE, VmPageSize} :
          /\ program \in IF page_size = DEFAULT_PAGE_SIZE THEN NewPrograms
                         ELSE Programs
          /\ LET vm == VirtualMachine_new(page_size, program)
             IN  memory = vm.memory /\ registers = vm.registers
    /\ overflow_checks \in BOOLEAN
    /\ status = "new"
    /\ result = None
    /\ file_handles = <<>> /\ io = None
    /\ calls = <<>> /\ buf = <<>>
    /\ instr = None /\ code = <<>> /\ decoded = None
    /\ source = <<>> /\ assembled = None /\ twin = None

\* vm.registers[2] = a; vm.registers[3] = b; by the embedder, before run()
SetRegisters(a, b) ==
    /\ status = "new"
    /\ <<a, b>> # <<0, 0>>
    /\ registers' = [registers EXCEPT ![2] = a, ![3] = b]
    /\ status' = "running"
    /\ UNCHANGED <<memory, program, result, overflow_checks, fileVars, memVars,
                   codecVars, asmVars, twin>>

\* how the process goes on after a call whose read may have written past its
\* buffer
Outcomes(oob) == IF oob THEN AfterOob ELSE {"running"}

\* One iteration of the loop of VirtualMachine::run: fetch, decode, execute.
\* code is the buffer of the fetch, decoded what try_into returned (None when
\* the fetch did not return).
Step ==
    /\ status \in {"new", "running"}
    /\ \E f \in {read_u32(memory, registers[0])} :
       \E d \in {try_from(LeWord(f.buf))} :
       \E host \in HostAnswers(registers, d) :
       \E e \in {IF d.kind = "Err" THEN None
                 ELSE exec_instr(memory, registers, file_handles, io, d,
                                 overflow_checks, host)} :
           IF f.panic THEN
               /\ status' = "panicked"
               /\ code' = f.buf /\ decoded' = None
               /\ UNCHANGED <<memory, registers, result, fileVars>>
           ELSE \E o1 \in Outcomes(f.oob) :
               IF o1 = "crashed" THEN
                   /\ status' = "crashed"
                   /\ code' = f.buf /\ decoded' = None
                   /\ UNCHANGED <<memory, registers, result, fileVars>>
               ELSE IF d.kind = "Err" THEN
                   \* try_into()? returns the error from run
                   /\ status' = "returned"
                   /\ result' = d
                   /\ code' = f.buf /\ decoded' = d
                   /\ UNCHANGED <<memory, registers, fileVars>>
               ELSE \E o2 \in Outcomes(e.oob) :
                   /\ code' = f.buf /\ decoded' = d
                   /\ memory' = e.memory
                   /\ registers' = e.registers
                   /\ file_handles' = e.file_handles /\ io' = e.io
                   /\ status' = IF o2 = "crashed" THEN "crashed"
                                ELSE IF e.ret = Panic THEN "panicked"
                                ELSE IF e.ret = OkNone THEN "running"
                                ELSE "returned"
                   /\ result' = IF o2 = "running" /\ e.ret.kind \in {"Ok", "Err"}
                                THEN e.ret ELSE result
    /\ UNCHANGED <<program, overflow_checks, memVars, instr, asmVars, twin>>

NextVM ==
    \/ \E p \in VmPairs : SetRegisters(p[1], p[2])
    \/ Step

SpecVM == InitVM /\ [][NextVM]_vars

---------------------------------------------------------------------------
(* Claims on Memory *)

\* The byte the memory holds at an address: the page's byte, 0 where no page is.
MemByte(m, addr) ==
    IF AddrPage(m, addr) \in DOMAIN m.pages
    THEN m.pages[AddrPage(m, addr)][AddrOffset(m, addr)]
    ELSE 0

Newest == calls[Len(calls)]
NewestIsRead == Len(calls) >= 1 /\ Newest.op = "read"
ReadAfterWrite ==
    /\ Len(calls) >= 2
    /\ Newest.op = "read"
    /\ calls[Len(calls) - 1].op = "write"
    /\ calls[Len(calls) - 1].addr = Newest.addr
    /\ Len(calls[Len(calls) - 1].data) = Len(Newest.data)

\* C1: write(addr, b) followed by read(addr, b') with len(b') = len(b) returns
\* and leaves b' equal to b, for every length (0 and 1 included) and whatever
\* b' held before.
C1_WriteThenReadGivesBack ==
    ReadAfterWrite =>
        /\ status = "running"
        /\ buf = calls[Len(calls) - 1].data

\* C2: read(addr, buf) returns and has set every buf[i] to the byte at
\* (addr + i) mod 2^32 of an allocated page and to 0 for an unallocated page,
\* whatever buf held before.
C2_ReadSetsEveryByte ==
    NewestIsRead =>
        /\ status = "running"
        /\ \A k \in 1 .. Len(buf) :
               buf[k] = MemByte(memory, wrapping_add(Newest.addr, k - 1))

---------------------------------------------------------------------------
(* The codec on its own (SpecCodec): an Instruction is encoded and the word  *)
(* decoded again, or a word is decoded directly.                             *)

\* register indices: the ends of each field width, and one in between
Regs5 == {0, 21, 31}
Regs3 == {0, 5, 7}
Regs2 == {0, 3}

\* immediates: the ends of the signed 16-bit and 7-bit ranges, small values,
\* and 0x8000 (not the sign extension of any 16-bit field)
Imm16 == {0, 1, 4, 32767, -32768, -4, -1, 32768}
Imm7 == {0, 1, 2, 4, 62, 63, -64, -2, -1, 64}
\* upper immediates: k * 2^16 (the field of the code) and k * 2^7
ImmUpper == {0, 65536, 63 * 65536, (-64) * 65536, -65536, 32767 * 65536,
             (-32768) * 65536, 128, 63 * 128, (-64) * 128, -128}

\* Instruction values whose opcode is not one try_from decodes to their
\* variant (the enum lets any opcode stand in any variant)
MixedShapes ==
    {Register(op, 1, 2, 3) : op \in OpCodes \ (OpsR \cup OpsCR)}
    \cup {Immediate(op, 1, 2, -1) :
            op \in OpCodes \ (OpsI \cup OpsCI \cup {OpCode.C_LOAD})}
    \cup {Store(op, 1, 2, -1) : op \in OpCodes \ (OpsS \cup {OpCode.C_STORE})}
    \cup {Upper(op, 1, -65536) : op \in OpCodes \ {OpCode.LUI, OpCode.C_LUI}}

\* the Instruction values encoded: every opcode in its variant shape, the
\* instruction of test::mv, and the mixed shapes
CodecInstrs ==
    {Register(op, d, s1, s2) : op \in OpsR, d \in Regs5, s1 \in Regs5, s2 \in Regs5}
    \cup {Register(op, d, s1, s2) : op \in OpsCR, d \in Regs3, s1 \in Regs3, s2 \in Regs2}
    \cup {Immediate(op, d, s1, imm) : op \in OpsI, d \in {0, 31}, s1 \in {0, 21}, imm \in Imm16}
    \cup {Immediate(op, d, s1, imm) : op \in OpsCI, d \in Regs3, s1 \in {0, 7}, imm \in Imm7}
    \cup {Immediate(OpCode.C_LOAD, d, s1, imm) : d \in Regs2, s1 \in Regs2, imm \in Imm7}
    \cup {Store(op, s1, s2, imm) : op \in OpsS, s1 \in {0, 21}, s2 \in {0, 31}, imm \in Imm16}
    \cup {Store(OpCode.C_STORE, s1, s2, imm) : s1 \in Regs2, s2 \in Regs2, imm \in Imm7}
    \cup {Upper(OpCode.LUI, d, imm) : d \in Regs5, imm \in ImmUpper}
    \cup {Upper(OpCode.C_LUI, d, imm) : d \in Regs3, imm \in ImmUpper}
    \cup {Register(OpCode.MV, 2, 2, 0)}
    \cup MixedShapes

\* the bytes that follow a compressed instruction in the word decoded
UpperHalves == {0, 65535, 4660}

\* the words decoded directly: every value of the low six bits, under a few
\* patterns of the other 26 bits (none, all, alternating)
CodecWords == {wrapping_add(b, hi * 64) : b \in 0 .. 63, hi \in {0, -1, 22369621, -22369622}}

InitCodec ==
    /\ memory = Memory_new(DEFAULT_PAGE_SIZE)
    /\ registers = <<>>
    /\ status = "running"
    /\ program = <<>>
    /\ result = None
    /\ overflow_checks \in BOOLEAN
    /\ file_handles = <<>> /\ io = None
    /\ calls = <<>>
    /\ buf = <<>>
    /\ instr = None /\ code = <<>> /\ decoded = None
    /\ source = <<>> /\ assembled = None /\ twin = None

\* instr.write_bytes(&mut code)
DoEncode(i) ==
    /\ instr = None /\ code = <<>>
    /\ instr' = i
    /\ code' = write_bytes(i, <<>>)
    /\ UNCHANGED <<vmVars, memVars, decoded, asmVars, twin>>

\* Instruction::try_from(word) for the word that starts with the bytes of code;
\* after a 2-byte instruction the upper half of the word is hi
DoDecode(hi) ==
    /\ code # <<>> /\ decoded = None
    /\ Len(code) = 4 => hi = 0
    /\ decoded' = try_from(IF Len(code) = 2 THEN Word(hi, Lo(LeWord(code)))
                           ELSE LeWord(code))
    /\ UNCHANGED <<vmVars, memVars, instr, code, asmVars, twin>>

\* Instruction::try_from(w)
DoDecodeWord(w) ==
    /\ instr = None /\ code = <<>>
    /\ code' = <<ByteOf(w, 0), ByteOf(w, 1), ByteOf(w, 2), ByteOf(w, 3)>>
    /\ decoded' = try_from(w)
    /\ UNCHANGED <<vmVars, memVars, instr, asmVars, twin>>

\* test::mv and its neighbours: let mut vm = VirtualMachine::default();
\* vm.exec_instr(instr), for the Instruction value built (registers is empty
\* until the machine exists)
DoExecInstr ==
    /\ instr # None /\ registers = <<>>
    /\ \E vm \in {VirtualMachine_new(DEFAULT_PAGE_SIZE, <<>>)} :
       \E host \in HostAnswers(vm.registers, instr) :
       \E e \in {exec_instr(vm.memory, vm.registers, <<>>, None, instr,
                            overflow_checks, host)} :
       \E o \in Outcomes(e.oob) :
           /\ memory' = e.memory
           /\ registers' = e.registers
           /\ file_handles' = e.file_handles /\ io' = e.io
           /\ status' = IF o = "crashed" THEN "crashed"
                        ELSE IF e.ret = Panic THEN "panicked"
                        ELSE IF e.ret = OkNone THEN "running"
                        ELSE "returned"
           /\ result' = IF o = "running" /\ e.ret.kind \in {"Ok", "Err"}
                        THEN e.ret ELSE result
    /\ UNCHANGED <<program, overflow_checks, memVars, codecVars, asmVars, twin>>

NextCodec ==
    \/ \E i \in CodecInstrs : DoEncode(i)
    \/ \E hi \in UpperHalves : DoDecode(hi)
    \/ \E w \in CodecWords : DoDecodeWord(w)
    \/ DoExecInstr

SpecCodec == InitCodec /\ [][NextCodec]_vars

---------------------------------------------------------------------------
(* Claims on the codec *)

\* the sign extension of the low `width` bits of v
SignExtend(v, width) == ((v + 2^(width - 1)) % 2^width) - 2^(width - 1)

\* The fields of i fit the encoding of its opcode as try_from and write_bytes
\* lay it out: a register the shape has no field for equals the one it is
\* decoded from; C_LOAD/C_STORE immediates are even 7-bit values; the C_LUI
\* immediate is a 7-bit value times 2^16.
CodeRepresentable(i) ==
    CASE i.kind = "Register" /\ i.op \in OpsR ->
            i.dst \in 0 .. 31 /\ i.src1 \in 0 .. 31 /\ i.src2 \in 0 .. 31
      [] i.kind = "Register" /\ i.op \in OpsCR ->
            i.dst \in 0 .. 31 /\ i.src1 = i.dst /\ i.src2 \in 0 .. 31
      [] i.kind = "Immediate" /\ i.op \in OpsI ->
            i.dst \in 0 .. 31 /\ i.src1 \in 0 .. 31 /\ i.imm = SignExtend(i.imm, 16)
      [] i.kind = "Immediate" /\ i.op \in OpsCI ->
            i.dst \in 0 .. 7 /\ i.src1 = i.dst /\ i.imm = SignExtend(i.imm, 7)
      [] i.kind = "Immediate" /\ i.op = OpCode.C_LOAD ->
            /\ i.dst \in 0 .. 3 /\ i.src1 \in 0 .. 3
            /\ i.imm = SignExtend(i.imm, 7) /\ i.imm % 2 = 0
      [] i.kind = "Store" /\ i.op \in OpsS ->
            i.src1 \in 0 .. 31 /\ i.src2 \in 0 .. 31 /\ i.imm = SignExtend(i.imm, 16)
      [] i.kind = "Store" /\ i.op = OpCode.C_STORE ->
            /\ i.src1 \in 0 .. 3 /\ i.src2 \in 0 .. 3
            /\ i.imm = SignExtend(i.imm, 7) /\ i.imm % 2 = 0
      [] i.kind = "Upper" /\ i.op = OpCode.LUI ->
            i.dst \in 0 .. 31 /\ i.imm % 65536 = 0
      [] i.kind = "Upper" /\ i.op = OpCode.C_LUI ->
            /\ i.dst \in 0 .. 7 /\ i.imm % 65536 = 0
            /\ i.imm \div 65536 = SignExtend(i.imm \div 65536, 7)
      [] OTHER -> FALSE

\* The fields of i fit the encoding of its opcode as the codec section of the
\* specification lays it out: compressed destinations 0..7, compressed sources
\* 0..3, C_LOAD/C_STORE immediates any 7-bit signed value (imm[2:0], imm[6:3]),
\* the C_LUI immediate a 7-bit signed value shifted left by 7.
SpecRepresentable(i) ==
    CASE i.kind = "Register" /\ i.op \in OpsR ->
            i.dst \in 0 .. 31 /\ i.src1 \in 0 .. 31 /\ i.src2 \in 0 .. 31
      [] i.kind = "Register" /\ i.op \in OpsCR ->
            i.dst \in 0 .. 7 /\ i.src1 = i.dst /\ i.src2 \in 0 .. 3
      [] i.kind = "Immediate" /\ i.op \in OpsI ->
            i.dst \in 0 .. 31 /\ i.src1 \in 0 .. 31 /\ i.imm = SignExtend(i.imm, 16)
      [] i.kind = "Immediate" /\ i.op \in OpsCI ->
            i.dst \in 0 .. 7 /\ i.src1 = i.dst /\ i.imm = SignExtend(i.imm, 7)
      [] i.kind = "Immediate" /\ i.op = OpCode.C_LOAD ->
            i.dst \in 0 .. 3 /\ i.src1 \in 0 .. 3 /\ i.imm = SignExtend(i.imm, 7)
      [] i.kind = "Store" /\ i.op \in OpsS ->
            i.src1 \in 0 .. 31 /\ i.src2 \in 0 .. 31 /\ i.imm = SignExtend(i.imm, 16)
      [] i.kind = "Store" /\ i.op = OpCode.C_STORE ->
            i.src1 \in 0 .. 3 /\ i.src2 \in 0 .. 3 /\ i.imm = SignExtend(i.imm, 7)
      [] i.kind = "Upper" /\ i.op = OpCode.LUI ->
            i.dst \in 0 .. 31 /\ i.imm % 65536 = 0
      [] i.kind = "Upper" /\ i.op = OpCode.C_LUI ->
            /\ i.dst \in 0 .. 7 /\ i.imm % 128 = 0
            /\ i.imm \div 128 = SignExtend(i.imm \div 128, 7)
      [] OTHER -> FALSE

\* an Instruction was encoded and the word decoded again
RoundTripDone == instr # None /\ decoded # None

\* C3 (as stated): for every Instruction whose fields fit the encoding as the
\* codec section lays it out, decoding the word write_bytes produced gives the
\* same Instruction.
C3_RoundTripSpecLayout ==
    (RoundTripDone /\ SpecRepresentable(instr)) => decoded = instr

\* C3 (amended): for every Instruction whose fields fit the encoding as the
\* code lays it out (C_LOAD/C_STORE immediates even, C_LUI immediate a 7-bit
\* value times 2^16), decoding the word write_bytes produced gives the same
\* Instruction, whatever follows a 2-byte encoding in the word.
C3_RoundTripCodeLayout ==
    (RoundTripDone /\ CodeRepresentable(instr)) => decoded = instr

\* C3 witness: a compressed load with a negative even immediate was encoded
\* and decoded under non-zero following bytes.
C3_Witness ==
    /\ RoundTripDone
    /\ CodeRepresentable(instr)
    /\ instr.op = OpCode.C_LOAD /\ instr.imm = -2 /\ instr.dst = 3
    /\ decoded = instr

---------------------------------------------------------------------------
(* Claims on the immediates decoded *)

\* the two halves of the word try_from was given, from its bytes in code (a
\* 2-byte encoding leaves the upper half to what follows it, which no
\* compressed field reaches)
CodeLo == code[1] + 256 * code[2]
CodeHi == IF Len(code) = 4 THEN code[3] + 256 * code[4] ELSE 0

\* the n bits of the half h from bit `from` on
FieldBits(h, from, n) == (h \div 2^from) % 2^n

\* the encoded immediate field of the word, as the layout of its opcode
\* places it, and the field's width
ImmField(op) ==
    CASE op \in OpsI \cup {OpCode.LUI} -> CodeHi
      [] op \in OpsS -> FieldBits(CodeHi, 5, 11) * 32 + FieldBits(CodeLo, 6, 5)
      [] op \in OpsCI \cup {OpCode.C_LUI} -> FieldBits(CodeLo, 9, 7)
      [] op \in {OpCode.C_LOAD, OpCode.C_STORE} ->
            FieldBits(CodeLo, 13, 3) * 8 + FieldBits(CodeLo, 8, 3)
FieldWidth(op) ==
    IF op \in OpsI \cup OpsS \cup {OpCode.LUI} THEN 16
    ELSE IF op \in {OpCode.C_LOAD, OpCode.C_STORE} THEN 6 ELSE 7

\* the weight of the field's lowest bit in the immediate: LUI and C_LUI place
\* the field from bit 16 up, C_LOAD and C_STORE from bit 1 up
FieldUnit(op) ==
    IF op \in {OpCode.LUI, OpCode.C_LUI} THEN 65536
    ELSE IF op \in {OpCode.C_LOAD, OpCode.C_STORE} THEN 2 ELSE 1

\* a word was decoded to an instruction that has an immediate
DecodedImm ==
    /\ decoded # None /\ decoded.kind \in {"Immediate", "Store", "Upper"}
    /\ Len(code) \in {2, 4}

\* C19: the immediate of every decoded instruction is the sign extension of
\* its encoded field to 32 bits (with the low bit cleared for C_LOAD and
\* C_STORE, and placed in the bits from 16 up for LUI and C_LUI); a field of
\* all ones decodes to 0xFFFFFFFF, 0xFFFFFFFE and 0xFFFF0000 respectively.
C19_ImmediateIsSignExtended ==
    DecodedImm =>
        LET op    == decoded.op
            field == ImmField(op)
        IN  /\ decoded.imm = SignExtend(field, FieldWidth(op)) * FieldUnit(op)
            /\ field = 2^FieldWidth(op) - 1 => decoded.imm = -FieldUnit(op)
            /\ op \in {OpCode.C_LOAD, OpCode.C_STORE} => decoded.imm % 2 = 0

\* the word 0xfffffff5 was decoded: a C_LOAD whose field is all ones
C19_Witness ==
    /\ DecodedImm /\ instr = None
    /\ code = <<245, 255, 255, 255>>
    /\ decoded.op = OpCode.C_LOAD /\ decoded.imm = -2

---------------------------------------------------------------------------
(* Claims on the execution core *)

\* a transition is an iteration of the loop of run (and not a write of the
\* embedder): it fetched
IsStep ==
    /\ status \in {"new", "running"}
    /\ code' # <<>>

\* the instruction the iteration fetched and decoded
Executed == decoded'

\* the address after that instruction; the increment did not wrap
NextPc == wrapping_add(registers[0], size(Executed))
NoPcWrap == ~ULess(NextPc, registers[0])

StoreBranches == {OpCode.BEQ, OpCode.BNE, OpCode.BLT, OpCode.BGE,
                  OpCode.BLT_U, OpCode.BGE_U}
ImmBranches == {OpCode.BEZ, OpCode.BNZ, OpCode.C_BEZ, OpCode.C_BNZ}

\* a < b on the unsigned values of two words, by their 16-bit halves
UnsignedLess(a, b) ==
    \/ (a \div Half) % Half < (b \div Half) % Half
    \/ (a \div Half) % Half = (b \div Half) % Half /\ a % Half < b % Half

\* the condition of a branch on the registers r, as the ISA states it
BranchCondition(i, r) ==
    CASE i.op \in {OpCode.BEZ, OpCode.C_BEZ} -> r[i.src1] = 0
      [] i.op \in {OpCode.BNZ, OpCode.C_BNZ} -> r[i.src1] # 0
      [] i.op = OpCode.BEQ   -> r[i.src1] = r[i.src2]
      [] i.op = OpCode.BNE   -> r[i.src1] # r[i.src2]
      [] i.op = OpCode.BLT   -> r[i.src1] < r[i.src2]
      [] i.op = OpCode.BGE   -> ~(r[i.src1] < r[i.src2])
      [] i.op = OpCode.BLT_U -> UnsignedLess(r[i.src1], r[i.src2])
      [] i.op = OpCode.BGE_U -> ~UnsignedLess(r[i.src1], r[i.src2])

\* the registers with r0 holding the address after the instruction
AfterIncrement == [registers EXCEPT ![0] = NextPc]

\* the iteration executed a Store-shape branch whose condition held
TakenStoreBranch ==
    /\ Executed.kind = "Store" /\ Executed.op \in StoreBranches
    /\ NoPcWrap
    /\ BranchCondition(Executed, AfterIncrement)

\* C4 (as stated): a taken Store-shape branch at address A leaves
\* PC = A + imm (mod 2^32): the offset is added to the PC before the increment.
C4_StoreBranchFromOwnAddress ==
    [][(IsStep /\ TakenStoreBranch) =>
            registers'[0] = wrapping_add(registers[0], Executed.imm)]_vars

\* C4 (amended): a taken Store-shape branch at address A leaves
\* PC = A + 4 + imm (mod 2^32): the offset is added to the PC after the
\* increment, as for the Immediate-shape branches.
C4_StoreBranchFromNextAddress ==
    [][(IsStep /\ TakenStoreBranch) =>
            /\ status' = "running"
            /\ registers'[0] =
                   wrapping_add(wrapping_add(registers[0], 4), Executed.imm)]_vars

\* C4 witness: blt.u r2, r3, 8 at address 0 with r2 = 1 < r3 = 0xffffffff was
\* taken: PC = 12.
C4_Witness ==
    /\ program = write_bytes(Store(OpCode.BLT_U, 2, 3, 8), <<>>)
    /\ decoded = Store(OpCode.BLT_U, 2, 3, 8)
    /\ registers[2] = 1 /\ registers[3] = -1
    /\ status = "running"
    /\ registers[0] = 12

\* C5: a branch of either shape at address A of size s is taken exactly when
\* its condition holds on the registers read in the step (r0 read as A + s);
\* taken, PC = A + s + imm (mod 2^32); not taken, PC = A + s.
C5_BranchTakenIffCondition ==
    [][(/\ IsStep
        /\ Executed.kind \in {"Immediate", "Store"}
        /\ Executed.op \in ImmBranches \cup StoreBranches
        /\ NoPcWrap) =>
            /\ status' = "running"
            /\ registers' =
                 [registers EXCEPT ![0] =
                    IF BranchCondition(Executed, AfterIncrement)
                    THEN wrapping_add(NextPc, Executed.imm)
                    ELSE NextPc]]_vars

\* C5 witness: bge r2, r3, -8 at address 2 with r2 = 0x80000000 (negative) and
\* r3 = 0 was not taken: PC = 6.
C5_Witness ==
    /\ decoded = Store(OpCode.BGE, 2, 3, -8)
    /\ registers[2] = (-2) * 2^30 /\ registers[3] = 0
    /\ Len(program) = 6
    /\ status = "running"
    /\ registers[0] = 6

\* the first iteration of run on the VM VirtualMachine::new(prog) returned
FirstStepOf(prog) ==
    /\ status = "new" /\ program = prog
    /\ memory.page_size = DEFAULT_PAGE_SIZE
    /\ code' # <<>>

\* C6 (as stated): the VM freshly made from [0x02,0x00,0x01,0x00] and stepped
\* once has r0 = 4 and r1 unchanged.
C6_AddStepLeavesPcFour ==
    [][FirstStepOf(<<2, 0, 1, 0>>) =>
            registers'[0] = 4 /\ registers'[1] = registers[1]]_vars

\* C6 (amended): the VM freshly made from [0x02,0x00,0x01,0x00] and stepped
\* once has r0 = (0 + 4) + r1 = 4 + 0xfffffffc = 0 (mod 2^32), r1 = 0xfffffffc
\* and every other register unchanged, and goes on running.
C6_AddStepAddsStackPtr ==
    [][FirstStepOf(<<2, 0, 1, 0>>) =>
            /\ status' = "running"
            /\ registers' = [registers EXCEPT ![0] = 0]
            /\ registers'[1] = -4]_vars

\* C6 witness: that step was taken.
C6_Witness ==
    /\ program = <<2, 0, 1, 0>>
    /\ memory.page_size = DEFAULT_PAGE_SIZE
    /\ decoded = Register(OpCode.ADD, 0, 0, 1)
    /\ status = "running"
    /\ registers[0] = 0 /\ registers[1] = -4

\* the opcodes whose step only computes a value into dst
ComputeOps ==
    OpsR \cup OpsCR
    \cup {OpCode.ADDI, OpCode.ANDI, OpCode.ORI, OpCode.XORI, OpCode.SLLI,
          OpCode.SRLI, OpCode.SRAI, OpCode.LI,
          OpCode.C_ADDI, OpCode.C_ANDI, OpCode.C_ORI, OpCode.C_XORI,
          OpCode.C_SLLI, OpCode.C_SRLI, OpCode.C_SRAI, OpCode.C_LI}

\* the value a computing instruction i produces from the registers r
Computed(i, r) ==
    IF i.kind = "Register" THEN RegisterValue(i.op, r[i.src1], r[i.src2])
    ELSE ImmediateValue(i.op, r[i.src1], i.imm)

\* C7: the PC is incremented by the size before the operation executes: a
\* computing instruction at address A reads r0 as A + size, and the registers
\* after the step are those with r0 = A + size and then dst set to the result,
\* so that with dst = r0 the PC is the result with no further increment.
C7_IncrementBeforeExecute ==
    [][(/\ IsStep
        /\ Executed.kind \in {"Register", "Immediate"}
        /\ Executed.op \in ComputeOps
        /\ NoPcWrap) =>
            /\ status' = "running"
            /\ registers' =
                 [AfterIncrement EXCEPT ![Executed.dst] =
                                    Computed(Executed, AfterIncrement)]]_vars

\* C7 witness: addi r0, r0, 4 at address 0 of a fresh VM left PC = 8.
C7_Witness ==
    /\ program = <<18, 0, 4, 0>>
    /\ decoded = Immediate(OpCode.ADDI, 0, 0, 4)
    /\ status = "running"
    /\ registers[0] = 8

\* C7 witness of the second example: add r2, r0, r0 at address 0 left r2 = 8.
C7_WitnessAdd ==
    /\ decoded = Register(OpCode.ADD, 2, 0, 0)
    /\ Len(program) = 4
    /\ status = "running"
    /\ registers[0] = 4 /\ registers[2] = 8

\* C8: after VirtualMachine::new(program): r0 = 0, r1 = 0xfffffffc, every other
\* register 0, and memory holds program[i] at address i and 0 elsewhere (here:
\* at the addresses up to the end of the program's last page, and at the top
\* of the address space).
C8_NewLoadsProgram ==
    status = "new" =>
        /\ registers = [k \in 0 .. 31 |-> IF k = 1 THEN -4 ELSE 0]
        /\ \A a \in (0 .. Len(program) + 1) \cup {-4, -1} :
              MemByte(memory, a) =
                  IF 0 <= a /\ a < Len(program) THEN program[a + 1] ELSE 0

\* the reserved values of the low six bits
Reserved == {0, 1, 37, 39, 41, 43, 45, 47, 56, 58, 59}

\* the word the memory holds at the PC
WordAtPc ==
    LeWord([k \in 1 .. 4 |-> MemByte(memory, wrapping_add(registers[0], k - 1))])

\* C10: an iteration of run that fetches a word whose low six bits b are
\* reserved returns InvalidOpCode(b) and changes no register and no memory;
\* for any other word the decoding does not fail.
C10_ReservedOpcodeStopsRun ==
    [][IsStep =>
        IF WordAtPc % 64 \in Reserved
        THEN /\ status' = "returned"
             /\ result' = InvalidOpCode(WordAtPc % 64)
             /\ registers' = registers /\ memory' = memory
        ELSE ~(result'.kind = "Err" /\ result'.error = "InvalidOpCode")]_vars

---------------------------------------------------------------------------
(* Assembling a source and running what was assembled (SpecAsm)            *)

LongLiteral == 64

\* the relative jumps to the label l
RelativeJumps(l) ==
    {instruction_ci(op, 2, LabelRelative(l)) :
        op \in {OpCode.BEZ, OpCode.BNZ, OpCode.C_BEZ, OpCode.C_BNZ}}
    \cup {instruction_s(op, 2, 3, LabelRelative(l)) :
        op \in {OpCode.BEQ, OpCode.BNE, OpCode.BLT, OpCode.BGE,
                OpCode.BLT_U, OpCode.BGE_U}}
    \cup {instruction_i(OpCode.ADDI, 0, 0, LabelRelative(l)),
          instruction_ci(OpCode.C_ADDI, 0, LabelRelative(l))}

\* what comes before the jump: a comment, c.li r2, 1 or c.li r3, 1
Pads == {None, instruction_ci(OpCode.C_LI, 2, Value(1)),
         instruction_ci(OpCode.C_LI, 3, Value(1))}

\* bytes "aaa" and bytes "a...a"
Literals == {StringLiteral([n \in 1 .. len |-> 97]) : len \in {3, LongLiteral}}

Exit == Line("", instruction_call(OpCode.CALL, Value(0)))
Break == Line("", instruction_break(OpCode.C_BREAK))

\*      pad; j $t; [bytes]; c.break; t: call 0
Forward(j, pad, lit) ==
    <<Line("", pad), Line("", j)>>
    \o (IF lit = None THEN <<>> ELSE <<Line("", lit)>>)
    \o <<Break, Line("t", None), Exit>>

\*   t: pad; c.break; j $t; call 0
Backward(j, pad) == <<Line("t", pad), Break, Line("", j), Exit>>

\*      pad; t: j $t; call 0
ToItself(j, pad) == <<Line("", pad), Line("t", j), Exit>>

\*   t: c.break; j $t; t: call 0
DefinedTwice(j) == <<Line("t", Break.instr), Line("", j), Break, Line("t", Exit.instr)>>

\*   t: c.break (seven times); j $t      (j is the end of the program)
AtEnd(j) == <<Line("t", Break.instr), Break, Break, Break, Break, Break, Break,
              Line("", j)>>

\*      li r0, %t; c.break; t: call 0
Absolute == <<Line("", instruction_ci(OpCode.LI, 0, LabelAbsolute("t"))),
              Break, Line("t", Exit.instr)>>

\*      li r0, %u; c.break; t: call 0
AbsoluteUndefined ==
    <<Line("", instruction_ci(OpCode.LI, 0, LabelAbsolute("u"))),
      Break, Line("t", Exit.instr)>>

\*      c.break; j $u; li r2, %v; t: call 0
TwoUndefined(j) ==
    <<Break, Line("", j), Line("", instruction_ci(OpCode.LI, 2, LabelAbsolute("v"))),
      Line("t", Exit.instr)>>

\*      c.break; j $u; (a line that does not parse)
UndefinedAndUnparsable(j) == <<Break, Line("", j), Line("", Unparsable)>>

\*      li r2, %t; bytes "aaa"; call 0; t:      (nothing follows t)
LabelAtEnd == <<Line("", instruction_ci(OpCode.LI, 2, LabelAbsolute("t"))),
                Line("", StringLiteral(<<97, 97, 97>>)), Exit, Line("t", None)>>

Sources ==
    {Forward(j, pad, lit) :
        j \in RelativeJumps("t"), pad \in Pads, lit \in Literals \cup {None}}
    \cup {Backward(j, pad) : j \in RelativeJumps("t"), pad \in Pads}
    \cup {ToItself(j, pad) : j \in RelativeJumps("t"), pad \in Pads}
    \cup {DefinedTwice(j) : j \in RelativeJumps("t")}
    \cup {AtEnd(j) : j \in RelativeJumps("t")}
    \cup {Forward(j, pad, None) : j \in RelativeJumps("u"), pad \in Pads}
    \cup {TwoUndefined(j) : j \in RelativeJumps("u")}
    \cup {UndefinedAndUnparsable(j) : j \in RelativeJumps("u")}
    \cup {AbsoluteUndefined}
    \cup {Absolute, LabelAtEnd, <<Break, Line("", Unparsable), Exit>>}

InitAsm ==
    /\ source \in Sources
    /\ assembled = None /\ twin = None
    /\ status = "source"
    /\ overflow_checks \in BOOLEAN
    /\ program = <<>>
    /\ LET vm == VirtualMachine_new(VmPageSize, <<>>)
       IN  memory = vm.memory /\ registers = vm.registers
    /\ result = None
    /\ file_handles = <<>> /\ io = None
    /\ calls = <<>> /\ buf = <<>>
    /\ instr = None /\ code = <<>> /\ decoded = None

\* assembler: parser::parse(buf), the bytes written to the output file
Assemble ==
    /\ status = "source"
    /\ assembled' = parse(source)
    /\ status' = "assembled"
    /\ UNCHANGED <<memory, registers, program, result, overflow_checks,
                   fileVars, memVars, codecVars, source, twin>>

\* svm [--page-size n] file: the file read, the machine built from it
Load(page_size) ==
    /\ status = "assembled"
    /\ assembled.kind = "Ok"
    /\ program' = assembled.bytes
    /\ LET vm == VirtualMachine_new(page_size, assembled.bytes)
       IN  memory' = vm.memory /\ registers' = vm.registers
    /\ status' = "new"
    /\ file_handles' = <<>> /\ io' = None
    /\ UNCHANGED <<result, overflow_checks, memVars, codecVars, asmVars, twin>>

NextAsm ==
    \/ Assemble
    \/ \E page_size \in {DEFAULT_PAGE_SIZE, VmPageSize} : Load(page_size)
    \/ Step

SpecAsm == InitAsm /\ [][NextAsm]_vars


---------------------------------------------------------------------------
(* Claims on the assembler and the machine together                        *)

\* the bytes of a line's instruction (none for a line without one)
LineSize(l) == IF l.instr = None THEN 0 ELSE placeholder_size(l.instr)

\* the address of what the k-th line emits: the bytes of the lines before it
RECURSIVE AddressOf(_, _)
AddressOf(lines, k) ==
    IF k = 1 THEN 0 ELSE AddressOf(lines, k - 1) + LineSize(lines[k - 1])

\* the address of the label l: that of its last definition
LabelAddress(lines, l) ==
    LET defs == {k \in 1 .. Len(lines) : lines[k].label = l}
    IN  AddressOf(lines, CHOOSE k \in defs : \A n \in defs : n <= k)

\* line k is a branch of either shape, addi r0, r0, $l or c.addi r0, $l,
\* and l is defined
IsRelativeJump(lines, k) ==
    /\ lines[k].instr.kind \in {"Immediate", "Store"}
    /\ lines[k].instr.imm.kind = "LabelRelative"
    /\ \E n \in 1 .. Len(lines) : lines[n].label = lines[k].instr.imm.label
    /\ \/ lines[k].instr.op \in ImmBranches \cup StoreBranches
       \/ /\ lines[k].instr.op \in {OpCode.ADDI, OpCode.C_ADDI}
          /\ lines[k].instr.dst = 0 /\ lines[k].instr.src1 = 0

\* label address minus the address of the next instruction
OffsetOf(lines, k) ==
    LabelAddress(lines, lines[k].instr.imm.label)
        - (AddressOf(lines, k) + LineSize(lines[k]))

\* the offset fits the immediate field of the instruction of line k
OffsetFits(lines, k) ==
    CodeRepresentable([lines[k].instr EXCEPT !.imm = OffsetOf(lines, k)])

\* the iteration executes the instruction of line k at the address of line k,
\* and jumps: a branch whose condition holds, or the addition to r0
ExecutesJump(lines, k) ==
    /\ IsStep
    /\ registers[0] = AddressOf(lines, k)
    /\ Executed.kind = lines[k].instr.kind
    /\ [Executed EXCEPT !.imm = 0] = [lines[k].instr EXCEPT !.imm = 0]
    /\ Executed.op \in ImmBranches \cup StoreBranches
            => BranchCondition(Executed, AfterIncrement)

\* C9: in an assembled program, a taken branch of either shape or an
\* addi r0, r0, $label / c.addi r0, $label whose offset fits the immediate
\* field leaves the PC at the address of the label, and the machine running.
C9_RelativeJumpReachesLabel ==
    [][\A k \in 1 .. Len(source) :
          (/\ assembled.kind = "Ok"
           /\ IsRelativeJump(source, k)
           /\ OffsetFits(source, k)
           /\ ExecutesJump(source, k))
          => /\ status' = "running"
             /\ registers'[0] = LabelAddress(source, source[k].instr.imm.label)
      ]_vars

\* blt.u r2, r3, $t over a literal of three bytes was taken: the PC is at t,
\* an odd address
C9_Witness ==
    /\ source = Forward(instruction_s(OpCode.BLT_U, 2, 3, LabelRelative("t")),
                        instruction_ci(OpCode.C_LI, 3, Value(1)),
                        StringLiteral(<<97, 97, 97>>))
    /\ status = "running"
    /\ decoded = Store(OpCode.BLT_U, 2, 3, 5)
    /\ registers[0] = 11
    /\ registers[0] = LabelAddress(source, "t")

\* c.bez r2, $t back to t was taken: the PC is at t again
C9_WitnessBackward ==
    /\ source = Backward(instruction_ci(OpCode.C_BEZ, 2, LabelRelative("t")), None)
    /\ status = "running"
    /\ decoded = Immediate(OpCode.C_BEZ, 2, 2, -4)
    /\ registers[0] = 0

\* the offset over the long literal does not fit c.bnz: the jump goes elsewhere
C9_WitnessNoFit ==
    /\ \E k \in 1 .. Len(source) :
          /\ source[k].instr.kind = "Immediate"
          /\ source[k].instr.op = OpCode.C_BNZ
          /\ IsRelativeJump(source, k)
          /\ ~OffsetFits(source, k)
    /\ decoded.kind = "Immediate" /\ decoded.op = OpCode.C_BNZ
    /\ registers[2] # 0
    /\ status = "running"
    /\ registers[0] # LabelAddress(source, "t")

---------------------------------------------------------------------------
(* Claims on the system calls                                              *)

\* the iteration executed CALL or C_CALL, and the number it dispatched on
IsCall == Executed.kind = "Immediate" /\ Executed.op \in {OpCode.CALL, OpCode.C_CALL}
CallNumber == Lo(Executed.imm)

\* C11: CALL or C_CALL with a number outside 0 .. 5 ends the run with
\* InvalidSysCall(number); the PC has advanced, and no other register, no
\* memory byte and no entry of the file table has changed.
C11_UnknownCallStopsRun ==
    [][(IsStep /\ IsCall /\ NoPcWrap /\ CallNumber \notin 0 .. 5)
        => /\ status' = "returned"
           /\ result' = [kind |-> "Err", error |-> "InvalidSysCall",
                         arg |-> CallNumber]
           /\ registers' = AfterIncrement
           /\ memory' = memory
           /\ file_handles' = file_handles]_vars

\* c.call -1 was executed: the run returned InvalidSysCall(0xffff)
C11_Witness ==
    /\ status = "returned"
    /\ decoded = Immediate(OpCode.C_CALL, 0, 0, -1)
    /\ result = [kind |-> "Err", error |-> "InvalidSysCall", arg |-> 65535]

---------------------------------------------------------------------------
(* Claims on how a run ends                                                *)

\* C12: a run that has stopped has returned, and what it returned is Ok(r4)
\* from syscall 0, InvalidOpCode from the decoder or InvalidSysCall from an
\* unknown syscall number; it has not stopped in any other way.
C12_RunStopsThreeWays ==
    /\ status \notin {"panicked", "crashed"}
    /\ status = "returned" =>
          \/ result = OkSome(registers[4])
          \/ result.kind = "Err" /\ result.error \in {"InvalidOpCode", "InvalidSysCall"}

---------------------------------------------------------------------------
(* System calls executed one by one (SpecFile), as the tests of vm.rs do:   *)
(* the memory and the file table are prepared, then for each call the       *)
(* registers r4 .. r6 are set and exec_instr(CALL n) is called.             *)

MaxCalls == 2

\* vm.memory.write(0, b"abcdefghijklmnop"): page 0 is allocated, page 1 is not
FileData == [k \in 1 .. VmPageSize |-> 96 + k]

\* vm.file_handles.insert(slot, file) for the slots of s
OpenedFile == [path |-> <<97, 98>>, flags |-> 3]
PreparedTable(s) == [slot \in s |-> OpenedFile]

\* the arguments of the calls: handles; <<ptr, len>> of read and write, in
\* page 0, across the end of page 0 and in page 1; <<ptr, len, flags>> of open
CallHandles == {0, 1, 2, 3, 4, -1}
CallRanges == {<<0, 0>>, <<0, 1>>, <<0, 2>>, <<VmPageSize - 2, 3>>,
               <<VmPageSize, 2>>}
OpenArgs == {<<0, 2, 1>>, <<0, 2, 0>>, <<0, 1, 1>>}

\* read and write are transfers; a transfer is the last call explored
Transfers == SelectSeq(calls, LAMBDA c : c.number \in {1, 2})

InitFile ==
    /\ program = <<>>
    /\ memory = write(Memory_new(VmPageSize), 0, FileData)
    /\ registers = reset([k \in 0 .. 31 |-> 0])
    /\ \E s \in SUBSET {0, 1} : file_handles = PreparedTable(s)
    /\ io = None
    /\ overflow_checks \in BOOLEAN
    /\ status = "running"
    /\ result = None
    /\ calls = <<>> /\ buf = <<>>
    /\ instr = None /\ code = <<>> /\ decoded = None
    /\ source = <<>> /\ assembled = None /\ twin = None

\* vm.registers[4..7].copy_from_slice(&[a, b, c]);
\* vm.exec_instr(Immediate { op: CALL, dst: 0, src1: 0, imm: n })
ExecCall(n, a, b, c) ==
    /\ status = "running"
    /\ Len(calls) < MaxCalls
    /\ Transfers = <<>>
    /\ \E regs \in {[registers EXCEPT ![4] = a, ![5] = b, ![6] = c]} :
       \E i \in {Immediate(OpCode.CALL, 0, 0, n)} :
       \E host \in HostAnswers(regs, i) :
       \E e \in {exec_instr(memory, regs, file_handles, io, i,
                            overflow_checks, host)} :
       \E o \in Outcomes(e.oob) :
           /\ calls' = Append(calls, [number |-> n, args |-> <<a, b, c>>,
                                      host |-> host])
           /\ decoded' = i
           /\ memory' = e.memory
           /\ registers' = e.registers
           /\ file_handles' = e.file_handles /\ io' = e.io
           /\ status' = IF o = "crashed" THEN "crashed"
                        ELSE IF e.ret = Panic THEN "panicked"
                        ELSE IF e.ret = OkNone THEN "running"
                        ELSE "returned"
           /\ result' = IF o = "running" /\ e.ret.kind \in {"Ok", "Err"}
                        THEN e.ret ELSE result
    /\ UNCHANGED <<program, overflow_checks, buf, instr, code, asmVars, twin>>

NextFile ==
    \/ \E h \in CallHandles, x \in CallRanges : ExecCall(1, h, x[1], x[2])
    \/ \E h \in CallHandles, x \in CallRanges : ExecCall(2, h, x[1], x[2])
    \/ \E x \in OpenArgs : ExecCall(3, x[1], x[2], x[3])
    \/ \E h \in CallHandles : ExecCall(4, h, 0, 0)
    \/ \E l \in {2, 0} : ExecCall(5, 0, l, 0)
    \/ \E n \in {0, 6} : ExecCall(n, 3, 0, 0)

SpecFile == InitFile /\ [][NextFile]_vars

FileTypeOK == DOMAIN file_handles \subseteq 0 .. MaxCalls + 2

---------------------------------------------------------------------------
(* Claims on the file system calls                                         *)

\* this step executed a call; its number, its arguments r4, r5, r6 and what
\* the host answered
IsExec == status = "running" /\ Len(calls') = Len(calls) + 1
Call == calls'[Len(calls')]
Arg(k) == Call.args[k]

\* h is a handle of the file table
Live(table, h) == \E slot \in DOMAIN table : h = slot + 3

\* the len bytes the memory m holds from ptr on
MemBytes(m, ptr, len) == [k \in 1 .. len |-> MemByte(m, wrapping_add(ptr, k - 1))]

\* C13: on a live handle, write passes to the host the len bytes the memory
\* holds at ptr and sets r3 to the number of bytes the host wrote; a read
\* that obtains k bytes stores them at ptr and sets r3 to k.
C13_TransfersMoveExactBytes ==
    [][(IsExec /\ Call.number \in {1, 2} /\ Live(file_handles, Arg(1))
        /\ Call.host.ok)
        => /\ status' = "running"
           /\ registers'[3] = Transferred(Call.host, Arg(3))
           /\ Call.number = 2 =>
                 /\ io'.op = "write" /\ io'.handle = Arg(1)
                 /\ io'.bytes = MemBytes(memory, Arg(2), Arg(3))
           /\ Call.number = 1 =>
                 /\ io'.op = "read" /\ io'.handle = Arg(1)
                 /\ MemBytes(memory', Arg(2), registers'[3]) = io'.bytes]_vars

\* the handles of the table, and the smallest handle >= 3 that is not one
LiveHandles(table) == {slot + 3 : slot \in DOMAIN table}
SmallestFree(table) ==
    CHOOSE h \in 3 .. 3 + Cardinality(DOMAIN table) :
        /\ ~Live(table, h)
        /\ \A g \in 3 .. h - 1 : Live(table, g)

\* C14: an open or create that succeeds returns in r3 the smallest handle
\* >= 3 that is not live, which becomes live; every other entry of the table
\* stays as it is; an open or create that fails leaves the table as it is.
C14_OpenReturnsSmallestFreeHandle ==
    [][(IsExec /\ Call.number \in {3, 5} /\ status' = "running")
        => IF registers'[3] # -1
           THEN /\ registers'[3] = SmallestFree(file_handles)
                /\ ~Live(file_handles, registers'[3])
                /\ LiveHandles(file_handles') =
                        LiveHandles(file_handles) \cup {registers'[3]}
                /\ \A slot \in DOMAIN file_handles :
                        file_handles'[slot] = file_handles[slot]
           ELSE file_handles' = file_handles]_vars

\* handle 3 was closed while 4 stayed live, and the open after it returned 3
C14_Witness ==
    /\ Len(calls) = 2
    /\ calls[1].number = 4 /\ calls[1].args[1] = 3
    /\ calls[2].number = 3
    /\ registers[3] = 3
    /\ DOMAIN file_handles = {0, 1}
    /\ status = "running"

\* C15: close of a live handle h removes the entry of slot h - 3, keeps every
\* other entry and sets r3 = 0; close of any other h sets r3 = -1 and leaves
\* the table as it is; the run continues in both cases.
C15_CloseRemovesOnlyLiveHandle ==
    [][(IsExec /\ Call.number = 4)
        => /\ status' = "running"
           /\ IF Live(file_handles, Arg(1))
              THEN /\ registers'[3] = 0
                   /\ LiveHandles(file_handles') = LiveHandles(file_handles) \ {Arg(1)}
                   /\ \A slot \in DOMAIN file_handles' :
                         file_handles'[slot] = file_handles[slot]
              ELSE /\ registers'[3] = -1
                   /\ file_handles' = file_handles]_vars

\* read on 1 or 2, write on 0, read or write on a handle >= 3 that is not live
BadTransfer ==
    /\ Call.number \in {1, 2}
    /\ \/ Call.number = 1 /\ Arg(1) \in {1, 2}
       \/ Call.number = 2 /\ Arg(1) = 0
       \/ Arg(1) \notin {0, 1, 2} /\ ~Live(file_handles, Arg(1))

\* the registers after a call that only advanced the PC and set r3 to -1
AfterBadCall == [registers EXCEPT ![0] = wrapping_add(registers[0], 4), ![3] = -1,
                                  ![4] = Arg(1), ![5] = Arg(2), ![6] = Arg(3)]

\* C16: read on handle 1 or 2, write on handle 0 and read or write on a handle
\* >= 3 that is not in the file table set r3 = -1 and change no other
\* register, no memory and no table entry; the run continues.
C16_BadHandleGivesMinusOne ==
    [][(IsExec /\ BadTransfer)
        => /\ status' = "running"
           /\ registers' = AfterBadCall
           /\ memory' = memory
           /\ file_handles' = file_handles]_vars

---------------------------------------------------------------------------
(* Claims on the pages of the memory                                       *)

\* the indices of the allocated pages
Allocated(m) == DOMAIN m.pages

\* C17 (pages are kept): no step takes a page away.
\* C17 (only writes allocate): a step of a run that adds a page executed
\* STORE, C_STORE or the system call 1 (read); a fetch, LOAD, C_LOAD and the
\* other system calls add none.
C17_OnlyWritesAllocate ==
    [][/\ Allocated(memory) \subseteq Allocated(memory')
       /\ (IsStep /\ Allocated(memory') # Allocated(memory))
            => \/ Executed.kind = "Store"
                    /\ Executed.op \in {OpCode.STORE, OpCode.C_STORE}
               \/ IsCall /\ CallNumber = 1]_vars

\* the read of the echo program has allocated page 1 next to the program's
\* page 0
C17_Witness ==
    /\ program = EchoProgram
    /\ decoded = Immediate(OpCode.CALL, 0, 0, 1)
    /\ registers[3] = 2
    /\ Allocated(memory) = {0, 1}
    /\ status = "running"

\* a STORE has allocated the last page of the memory
C17_WitnessStore ==
    /\ decoded.kind = "Store" /\ decoded.op = OpCode.STORE
    /\ Allocated(memory) = {0, page_count(memory) - 1}
    /\ status = "running"

\* LOAD from a page that is not allocated left the pages as they were
C17_WitnessLoad ==
    /\ decoded = Immediate(OpCode.LOAD, 0, 0, -4)
    /\ Allocated(memory) = {0}
    /\ status \in {"running", "crashed"}

\* the n bytes from addr on pass the end of the address space: addr + n > 2^32
Wraps(addr, n) == addr < 0 /\ addr + n > 0

\* every page of the n bytes from addr on is allocated
RangeAllocated(m, addr, n) ==
    \A i \in 0 .. n - 1 : AddrPage(m, wrapping_add(addr, i)) \in Allocated(m)

\* C18: a write that passes the end of the address space leaves byte i of its
\* buffer at address (addr + i) mod 2^32, in the last page and in page 0; a
\* read that passes the end and lies in allocated pages returns the byte at
\* (addr + i) mod 2^32 as byte i.
C18_AccessWrapsToAddressZero ==
    (Len(calls) >= 1 /\ Wraps(Newest.addr, Len(Newest.data))) =>
        /\ Newest.op = "write" =>
              /\ \A i \in 1 .. Len(Newest.data) :
                    MemByte(memory, wrapping_add(Newest.addr, i - 1)) = Newest.data[i]
              /\ {0, page_count(memory) - 1} \subseteq Allocated(memory)
        /\ (Newest.op = "read"
                /\ RangeAllocated(memory, Newest.addr, Len(Newest.data))) =>
              /\ status = "running"
              /\ \A i \in 1 .. Len(buf) :
                    buf[i] = MemByte(memory, wrapping_add(Newest.addr, i - 1))

\* six bytes were written at 0xfffffffd and read back from there: three from
\* the last page, three from page 0
C18_Witness ==
    /\ ReadAfterWrite
    /\ Newest.addr = -3 /\ Len(Newest.data) = 6
    /\ buf = Pattern(6)
    /\ MemByte(memory, -1) = 19 /\ MemByte(memory, 0) = 20


---------------------------------------------------------------------------
(* Claims on the size of an instruction *)

\* the size the parity of the opcode's discriminant decides
ParitySize(op) == IF op % 2 = 0 THEN 4 ELSE 2

\* the instruction itself may write r0: a branch, or r0 as destination
WritesPc(i) ==
    CASE i.kind = "Store" -> i.op \notin {OpCode.STORE, OpCode.C_STORE}
      [] i.kind = "Immediate" ->
            \/ i.op \in {OpCode.BEZ, OpCode.BNZ, OpCode.C_BEZ, OpCode.C_BNZ}
            \/ /\ i.op \notin {OpCode.CALL, OpCode.C_CALL, OpCode.BREAK, OpCode.C_BREAK}
               /\ i.dst = 0
      [] OTHER -> i.dst = 0

\* this transition built an Instruction value and called write_bytes on it
Encoded == instr = None /\ instr' # None

\* this transition called exec_instr on a new machine and the call returned
ExecutedAtZero ==
    /\ registers = <<>> /\ registers' # <<>>
    /\ status' \in {"running", "returned"}

\* C20: for every Instruction value, of whatever variant, size() is 4 and
\* write_bytes appends 4 bytes when the opcode is even, 2 and 2 bytes when it
\* is odd; a step that executes the instruction at address 0 leaves PC at that
\* size (unless the instruction writes r0 itself).
C20_SizeByOpcodeParity ==
    [][/\ Encoded =>
            /\ size(instr') = ParitySize(instr'.op)
            /\ Len(code') = Len(code) + ParitySize(instr'.op)
       /\ (ExecutedAtZero /\ ~WritesPc(instr)) =>
            registers'[0] = ParitySize(instr.op)]_vars

\* test::mv: mv r2, r0 was encoded in 2 bytes and executed on a new machine,
\* which left PC = 2 and r2 = 2
C20_Witness ==
    /\ instr = Register(OpCode.MV, 2, 2, 0)
    /\ Len(code) = 2
    /\ registers # <<>> /\ status = "running"
    /\ registers[0] = 2 /\ registers[2] = 2

\* a compressed opcode in a variant try_from never gives it was encoded in 2
\* bytes, and a wide one in 4
C20_WitnessMixed ==
    \/ instr = Store(OpCode.C_ADDI, 1, 2, -1) /\ Len(code) = 2
    \/ instr = Register(OpCode.LUI, 1, 2, 3) /\ Len(code) = 4


---------------------------------------------------------------------------
(* Claims on the registers of the compressed register shape *)

\* a word was decoded to an instruction of the CR shape
DecodedCR ==
    /\ decoded # None /\ decoded.kind = "Register" /\ decoded.op \in OpsCR
    /\ Len(code) \in {2, 4}

\* C21 (as stated): a word with a CR-shape opcode decodes to destination =
\* source1 = bits 6-8 and source2 = bits 11-13, whatever bits 9, 10, 14 and
\* 15 hold.
C21_CRFieldsOfThreeBits ==
    DecodedCR =>
        /\ decoded.dst = FieldBits(CodeLo, 6, 3)
        /\ decoded.src1 = FieldBits(CodeLo, 6, 3)
        /\ decoded.src2 = FieldBits(CodeLo, 11, 3)

\* C21 (amended): a word with a CR-shape opcode decodes to destination =
\* source1 = bits 6-10 and source2 = bits 11-15, register indices in 0..31;
\* the instruction depends on all 16 bits of the word and on nothing above
\* them.
C21_CRFieldsOfFiveBits ==
    DecodedCR =>
        /\ decoded.dst = FieldBits(CodeLo, 6, 5)
        /\ decoded.src1 = FieldBits(CodeLo, 6, 5)
        /\ decoded.src2 = FieldBits(CodeLo, 11, 5)
        /\ decoded.op = FieldBits(CodeLo, 0, 6)

\* the word 0xffffffc3 was decoded: c.add r31, r31
C21_Witness ==
    /\ instr = None
    /\ code = <<195, 255, 255, 255>>
    /\ decoded = Register(OpCode.C_ADD, 31, 31, 31)


---------------------------------------------------------------------------
(* Claims on the compressed upper immediate *)

\* a word was decoded to C_LUI
DecodedCLui ==
    /\ decoded # None /\ decoded.kind = "Upper" /\ decoded.op = OpCode.C_LUI
    /\ Len(code) \in {2, 4}

\* C_LUI was executed on a new machine, with a destination other than r0
ExecutedCLui ==
    /\ instr # None /\ instr.kind = "Upper" /\ instr.op = OpCode.C_LUI
    /\ registers # <<>> /\ status = "running"
    /\ instr.dst # 0

\* C22 (as stated): the immediate decoded from a C_LUI word is the signed
\* 7-bit field of bits 9-15 shifted left by 7 (bits 13-19 of the value).
C22_CLuiShiftedBySeven ==
    DecodedCLui =>
        decoded.imm = SignExtend(FieldBits(CodeLo, 9, 7), 7) * 2^7

\* C22 (amended): the immediate decoded from a C_LUI word is the signed 7-bit
\* field of bits 9-15 shifted left by 16 (bits 16-22 of the value, its low 16
\* bits zero), and executing C_LUI loads the immediate into the destination.
C22_CLuiShiftedBySixteen ==
    /\ DecodedCLui =>
          /\ decoded.imm = SignExtend(FieldBits(CodeLo, 9, 7), 7) * 2^16
          /\ decoded.imm % 2^16 = 0
    /\ ExecutedCLui => registers[instr.dst] = instr.imm

\* the word 0xfffffff3 was decoded: c.lui r7 with the field all ones, which
\* gives 0xffff0000
C22_Witness ==
    /\ instr = None
    /\ code = <<243, 255, 255, 255>>
    /\ decoded = Upper(OpCode.C_LUI, 7, -65536)

\* c.lui r5, 0x10000 was encoded, decoded again and executed: r5 = 0x10000
C22_WitnessExecuted ==
    /\ ExecutedCLui
    /\ instr = Upper(OpCode.C_LUI, 5, 65536) /\ decoded = instr
    /\ registers[5] = 65536


---------------------------------------------------------------------------
(* Claims on the arithmetic of the machine *)

MinI32 == (-2) * 2^30
MaxI32 == (2^30 - 1) + 2^30

\* (a + b) mod 2^32 and (a - b) mod 2^32 as the word of that bit pattern,
\* by the cases in which the sum of the signed values leaves the 32 bits
SumMod(a, b) ==
    IF a >= 0 /\ b >= 0 /\ a > MaxI32 - b THEN (a + MinI32) + (b + MinI32)
    ELSE IF a < 0 /\ b < 0 /\ a < MinI32 - b THEN (a - MinI32) + (b - MinI32)
    ELSE a + b
DifferenceMod(a, b) ==
    IF a >= 0 /\ b < 0 /\ a > MaxI32 + b THEN (a + MinI32) - (b - MinI32)
    ELSE IF a < 0 /\ b >= 0 /\ a < MinI32 + b THEN (a - MinI32) - (b + MinI32)
    ELSE a - b

\* r is a shifted left by n, shifted right by n with zeros coming in, or
\* shifted right by n with copies of bit 31 coming in, bit by bit
IsShiftLeft(r, a, n) ==
    \A k \in 0 .. 31 : Bit(r, k) = IF k >= n THEN Bit(a, k - n) ELSE 0
IsShiftRightZeros(r, a, n) ==
    \A k \in 0 .. 31 : Bit(r, k) = IF k + n <= 31 THEN Bit(a, k + n) ELSE 0
IsShiftRightSign(r, a, n) ==
    \A k \in 0 .. 31 : Bit(r, k) = IF k + n <= 31 THEN Bit(a, k + n) ELSE Bit(a, 31)

Adds == {OpCode.ADD, OpCode.C_ADD, OpCode.ADDI, OpCode.C_ADDI}
Subs == {OpCode.SUB, OpCode.C_SUB}
ShiftsLeft == {OpCode.SLL, OpCode.C_SLL, OpCode.SLLI, OpCode.C_SLLI}
ShiftsRight == {OpCode.SRL, OpCode.C_SRL, OpCode.SRLI, OpCode.C_SRLI}
ShiftsRightSign == {OpCode.SRA, OpCode.C_SRA, OpCode.SRAI, OpCode.C_SRAI}

\* the iteration executed an instruction that adds, subtracts or shifts, and
\* returned
ArithmeticStep ==
    /\ IsStep /\ Executed # None /\ Executed.kind \in {"Register", "Immediate"}
    /\ Executed.op \in Adds \cup Subs \cup ShiftsLeft \cup ShiftsRight
                        \cup ShiftsRightSign
    /\ NoPcWrap
    /\ status' = "running"

\* the two operands the instruction read: registers after the increment of
\* r0, or the immediate
FirstOperand == AfterIncrement[Executed.src1]
SecondOperand ==
    IF Executed.kind = "Register" THEN AfterIncrement[Executed.src2]
    ELSE Executed.imm

\* C23: add, addi and sub (wide and compressed) leave the sum and the
\* difference modulo 2^32 in the destination; the shifts shift by the second
\* operand modulo 32, srl bringing zeros in and sra copies of bit 31.
C23_ArithmeticWrapsAndShiftsMask ==
    [][ArithmeticStep =>
        LET r == registers'[Executed.dst]
            a == FirstOperand
            b == SecondOperand
            n == b % 32
        IN  /\ Executed.op \in Adds => r = SumMod(a, b)
            /\ Executed.op \in Subs => r = DifferenceMod(a, b)
            /\ Executed.op \in ShiftsLeft => IsShiftLeft(r, a, n)
            /\ Executed.op \in ShiftsRight => IsShiftRightZeros(r, a, n)
            /\ Executed.op \in ShiftsRightSign => IsShiftRightSign(r, a, n)]_vars

\* sra r2, r2, r3 ran with r2 = 0xfffffff8 and r3 = 33: it shifted by 1 and
\* left 0xfffffffc
C23_Witness ==
    /\ status = "running"
    /\ decoded = Register(OpCode.SRA, 2, 2, 3)
    /\ registers[3] = 33 /\ registers[2] = -4

\* srl r2, r2, r3 with r2 = 0xffffffff and r3 = 32 shifted by 0; add r2, r2, r3
\* with r2 = 0xffffffff and r3 = 1 left 0
C23_WitnessShiftBy32 ==
    /\ status = "running"
    /\ decoded = Register(OpCode.SRL, 2, 2, 3)
    /\ registers[3] = 32 /\ registers[2] = -1
C23_WitnessAddWraps ==
    /\ status = "running"
    /\ decoded = Register(OpCode.ADD, 2, 2, 3)
    /\ registers[3] = 1 /\ registers[2] = 0


---------------------------------------------------------------------------
(* Claims on the errors of the assembler *)

\* the lines whose instruction refers to a label no line defines
UndefinedRefs(lines) ==
    {k \in 1 .. Len(lines) :
        /\ lines[k].instr.kind \in {"Immediate", "Store", "Upper"}
        /\ lines[k].instr.imm.kind \in {"LabelAbsolute", "LabelRelative"}
        /\ \A n \in 1 .. Len(lines) : lines[n].label # lines[k].instr.imm.label}

\* the lines that do not parse
UnparsableLines(lines) == {k \in 1 .. Len(lines) : lines[k].instr = Unparsable}

\* the smallest element of a non-empty set of line numbers
First(S) == CHOOSE k \in S : \A n \in S : k <= n

\* the source was assembled
Assembled == assembled # None

\* C24 (as stated): a source in which an instruction refers to an undefined
\* label gives an error that names such a label, and no bytes; a source whose
\* labels are all defined somewhere, before or after their use, gives bytes.
C24_UndefinedLabelIsNamed ==
    Assembled =>
        /\ UndefinedRefs(source) # {} =>
              \E k \in UndefinedRefs(source) :
                  assembled = LabelNotFound(source[k].instr.imm.label)
        /\ (UndefinedRefs(source) = {} /\ UnparsableLines(source) = {}) =>
              assembled.kind = "Ok"

\* C24 (amended): a source in which an instruction refers to an undefined
\* label gives an error and no bytes; the error names the first such label in
\* the order of the lines when every line parses, and is the line error of
\* the first line that does not parse otherwise; a source that parses and
\* whose labels are all defined, before or after their use, gives bytes.
C24_UndefinedLabelOrLineError ==
    Assembled =>
        /\ UndefinedRefs(source) # {} => assembled.kind = "Err"
        /\ (UndefinedRefs(source) # {} /\ UnparsableLines(source) = {}) =>
              assembled =
                  LabelNotFound(source[First(UndefinedRefs(source))].instr.imm.label)
        /\ UnparsableLines(source) # {} =>
              assembled = ErrorOnLine(First(UnparsableLines(source)))
        /\ (UndefinedRefs(source) = {} /\ UnparsableLines(source) = {}) =>
              assembled.kind = "Ok"

\* c.li r2, 1; bnz r2, $u; c.break; t: call 0 was assembled: the error names
\* u, after c.li was encoded
C24_Witness ==
    /\ source = Forward(instruction_ci(OpCode.BNZ, 2, LabelRelative("u")),
                        instruction_ci(OpCode.C_LI, 2, Value(1)), None)
    /\ assembled = LabelNotFound("u")

\* an undefined label and a line that does not parse: the error is the line's
C24_WitnessLineError ==
    /\ UndefinedRefs(source) # {}
    /\ assembled = ErrorOnLine(3)

\* a label defined after its use was resolved
C24_WitnessForward ==
    /\ source = Forward(instruction_ci(OpCode.BNZ, 2, LabelRelative("t")),
                        None, None)
    /\ assembled # None /\ assembled.kind = "Ok"


---------------------------------------------------------------------------
(* The Fibonacci program of the repository run to its end (SpecFib)         *)

\* tests/fibonacci.rs: the 42 bytes of the program
FibonacciProgram ==
    <<49, 95, 177, 12, 19, 12, 63, 0, 49, 1, 61, 0, 241, 0, 113, 1,
      177, 3, 19, 253, 168, 34, 3, 0, 67, 49, 131, 41, 19, 232, 249, 40,
      57, 16, 21, 3, 33, 241, 249, 48, 57, 16>>

\* let mut vm = VirtualMachine::new(program).unwrap()
InitFib ==
    /\ program = FibonacciProgram
    /\ LET vm == VirtualMachine_new(DEFAULT_PAGE_SIZE, program)
       IN  memory = vm.memory /\ registers = vm.registers
    /\ overflow_checks \in BOOLEAN
    /\ status = "new"
    /\ result = None
    /\ file_handles = <<>> /\ io = None
    /\ calls = <<>> /\ buf = <<>>
    /\ instr = None /\ code = <<>> /\ decoded = None
    /\ source = <<>> /\ assembled = None /\ twin = None

\* vm.run(): its loop, one iteration at a time
NextFib == Step

SpecFib == InitFib /\ [][NextFib]_vars

\* the loop of run goes on while it has not returned
FairSpecFib == SpecFib /\ WF_vars(NextFib)

---------------------------------------------------------------------------
(* Claims on the Fibonacci program *)

\* 2,971,215,073 as the word of that bit pattern
Fibonacci47 == (-2) * 2^30 + 823731425

\* run() returned Ok(0) with r3 = 2,971,215,073
FibonacciDone ==
    /\ status = "returned"
    /\ result = OkSome(0)
    /\ registers[3] = Fibonacci47

\* C25: the run of the Fibonacci program ends, and when it has ended run()
\* has returned exit status 0 with r3 = 2,971,215,073.
C25_FibonacciTerminates ==
    /\ <>(status \notin {"new", "running"})
    /\ [](status \notin {"new", "running"} => FibonacciDone)

\* the run has returned 0 with r3 = 2,971,215,073
C25_Witness == FibonacciDone /\ program = FibonacciProgram


---------------------------------------------------------------------------
(* Claims on the layout of the assembled output                             *)

\* the bytes of an item: those of a literal, 2 or 4 by the parity of the opcode
ItemSize(ph) ==
    IF ph.kind = "StringLiteral" THEN Len(ph.bytes)
    ELSE IF ph.op % 2 = 1 THEN 2 ELSE 4

\* the offset in the output at which the item of line k begins, or would
RECURSIVE OffsetOfLine(_, _)
OffsetOfLine(lines, k) ==
    IF k = 1 THEN 0
    ELSE OffsetOfLine(lines, k - 1)
            + (IF lines[k - 1].instr = None THEN 0 ELSE ItemSize(lines[k - 1].instr))

\* the labels of the source, and the offset of what follows the (last)
\* definition of l: the output length if nothing does
LabelsOf(lines) == {lines[k].label : k \in 1 .. Len(lines)} \ {""}
FollowingOffset(lines, l) ==
    LET defs == {k \in 1 .. Len(lines) : lines[k].label = l}
    IN  OffsetOfLine(lines, CHOOSE k \in defs : \A n \in defs : n <= k)

\* the instruction of line k with %name and $name resolved as claimed
ResolvedAsClaimed(lines, k) ==
    LET ph == lines[k].instr
    IN  IF ph.kind = "Register" THEN ph
        ELSE IF ph.imm.kind = "Value" THEN [ph EXCEPT !.imm = ph.imm.value]
        ELSE IF ph.imm.kind = "LabelAbsolute"
             THEN [ph EXCEPT !.imm = FollowingOffset(lines, ph.imm.label)]
             ELSE [ph EXCEPT !.imm = FollowingOffset(lines, ph.imm.label)
                                        - (OffsetOfLine(lines, k) + ItemSize(ph))]

\* the output of the first k lines, every reference resolved as claimed
RECURSIVE OutputAsClaimed(_, _)
OutputAsClaimed(lines, k) ==
    IF k = 0 THEN <<>>
    ELSE LET before == OutputAsClaimed(lines, k - 1)
         IN  IF lines[k].instr = None THEN before
             ELSE IF lines[k].instr.kind = "StringLiteral"
                  THEN before \o lines[k].instr.bytes
                  ELSE write_bytes(ResolvedAsClaimed(lines, k), before)

\* the source refers to the label l in line k
RefersTo(lines, k, l) ==
    /\ lines[k].instr # None
    /\ lines[k].instr.kind \in {"Immediate", "Store", "Upper"}
    /\ lines[k].instr.imm.kind \in {"LabelAbsolute", "LabelRelative"}
    /\ lines[k].instr.imm.label = l

\* C26: after a successful assembly the address recorded for every label is
\* the offset of the first item after it (the output length if there is
\* none; the last definition if a name is defined more than once), the output
\* is as long as the sizes of the items together, and the output holds every
\* instruction with %name resolved to that address and $name to that address
\* minus the offset of the end of the instruction.
C26_LabelsAndLengthOfOutput ==
    (assembled # None /\ assembled.kind = "Ok") =>
        LET one == PassOne(source, 1, <<>>, <<>>, 0)
        IN  /\ DOMAIN one.labels = LabelsOf(source)
            /\ \A l \in LabelsOf(source) :
                  one.labels[l] = FollowingOffset(source, l)
            /\ Len(assembled.bytes) = OffsetOfLine(source, Len(source) + 1)
            /\ assembled.bytes = OutputAsClaimed(source, Len(source))

\* assembled: a jump over a literal of three bytes to t, which is followed by
\* call 0 at offset 11
C26_Witness ==
    /\ assembled # None /\ assembled.kind = "Ok"
    /\ source = Forward(instruction_s(OpCode.BLT_U, 2, 3, LabelRelative("t")),
                        instruction_ci(OpCode.C_LI, 3, Value(1)),
                        StringLiteral(<<97, 97, 97>>))
    /\ FollowingOffset(source, "t") = 11
    /\ Len(assembled.bytes) = 15

\* assembled: li r2, %t with t at the end of the source, the output length
C26_WitnessAtEnd ==
    /\ assembled # None /\ assembled.kind = "Ok"
    /\ source = LabelAtEnd
    /\ RefersTo(source, 1, "t")
    /\ FollowingOffset(source, "t") = Len(assembled.bytes)
    /\ Len(assembled.bytes) = 11


---------------------------------------------------------------------------
(* Claims on what an instruction leaves alone                               *)

Calls == {OpCode.CALL, OpCode.C_CALL}
Stores == {OpCode.STORE, OpCode.C_STORE}
Breaks == {OpCode.BREAK, OpCode.C_BREAK}

\* the iteration decoded an instruction and executed it
ExecutedInstruction ==
    /\ IsStep
    /\ decoded' # None /\ decoded'.kind # "Err"
    /\ NoPcWrap

\* the registers an instruction may write besides r0: its destination, none
\* for a branch, a store and a breakpoint
MayWrite(i) ==
    IF \/ i.kind = "Store"
       \/ i.op \in ImmBranches \cup Breaks
    THEN {0}
    ELSE {0, i.dst}

\* the registers outside rs are as they were
RegistersKept(rs) ==
    \A r \in DOMAIN registers \ rs : registers'[r] = registers[r]

\* C27 (as stated): an instruction other than CALL/C_CALL changes no register
\* but r0 and its destination, a branch, a store and a breakpoint none but r0,
\* no instruction but STORE/C_STORE changes the memory, and a breakpoint,
\* enabled or not, leaves the machine running.
C27_OnlyStoreChangesMemory ==
    [][ExecutedInstruction =>
          /\ Executed.op \notin Calls => RegistersKept(MayWrite(Executed))
          /\ Executed.op \notin Stores => memory' = memory
          /\ Executed.op \in Breaks => status' = "running"
      ]_vars

\* C27: an instruction other than CALL/C_CALL changes no register but r0 and
\* its destination, a branch, a store and a breakpoint none but r0; of the
\* instructions other than CALL/C_CALL only STORE/C_STORE changes the memory;
\* and a breakpoint, enabled or not, leaves the machine running.
C27_FrameOfInstruction ==
    [][ExecutedInstruction =>
          /\ Executed.op \notin Calls => RegistersKept(MayWrite(Executed))
          /\ Executed.op \notin Stores \cup Calls => memory' = memory
          /\ Executed.op \in Breaks => status' = "running"
      ]_vars

\* break at address 0 with breakpoints enabled: a line was waited for, the
\* machine runs on at address 4 with r2 and r3 as the embedder set them
C27_Witness ==
    /\ decoded = Immediate(OpCode.BREAK, 0, 0, 0)
    /\ io # None /\ io.op = "breakpoint"
    /\ status = "running"
    /\ registers[0] = 4
    /\ registers[2] = 1 /\ registers[3] = -1

\* load r2, r3, 0 with r3 = 1 wrote r2 and left r3
C27_WitnessLoad ==
    /\ decoded = Immediate(OpCode.LOAD, 2, 3, 0)
    /\ status = "running"
    /\ registers[0] = 4
    /\ registers[3] = 1 /\ registers[2] # 0

\* call 1 read two bytes from the standard input to address 20
C27_WitnessRead ==
    /\ program = EchoProgram
    /\ decoded = Immediate(OpCode.CALL, 0, 0, 1)
    /\ io # None /\ io.op = "read" /\ io.n = 2
    /\ read(memory, 20, <<0, 0>>).buf = HostBytes(2)


---------------------------------------------------------------------------
(* Two machines side by side (SpecTwin): VirtualMachine::with_page_size on   *)
(* two programs that hold the same compressed instruction and differ in the  *)
(* two bytes after it, the same writes of the embedder to the registers of   *)
(* both, then one iteration of run() on each.                                *)

\* the compressed instructions run: register and immediate forms, branches,
\* c.load and c.store through r0 (the bytes after the instruction) and
\* through r3, c.lui, c.call 0, c.call 6 and c.break
TwinInstrs ==
    {Register(op, 2, 2, 3) : op \in {OpCode.C_ADD, OpCode.C_SRA, OpCode.MV}}
    \cup {Immediate(op, 2, 2, 4) :
            op \in {OpCode.C_ADDI, OpCode.C_LI, OpCode.C_BEZ, OpCode.C_BNZ}}
    \cup {Immediate(OpCode.C_LOAD, 2, s, 0) : s \in {0, 3}}
    \cup {Store(OpCode.C_STORE, s, 2, 0) : s \in {0, 3}}
    \cup {Upper(OpCode.C_LUI, 2, 65536)}
    \cup {Immediate(OpCode.C_CALL, 0, 0, n) : n \in {0, 6}}
    \cup {Immediate(OpCode.C_BREAK, 0, 0, 0)}

\* where the instruction lies: at the start of page 0, in its last two bytes
TwinAddrs == {0, VmPageSize - 2}

\* what follows the instruction in the program: nothing, or two bytes
Tails == {<<>>, <<0, 0>>, <<1, 0>>, <<52, 18>>}

\* the values of r2 and r3 set by the embedder
TwinPairs == {<<0, 0>>, <<1, 2>>, <<5, VmPageSize>>}

\* the program: zeroes up to the address, the instruction, the tail
TwinProgram(addr, i, tail) ==
    [k \in 1 .. addr |-> 0] \o write_bytes(i, <<>>) \o tail

\* the machine built from the program, r0, r2 and r3 written by the embedder
TwinMachine(addr, i, tail, p) ==
    LET vm == VirtualMachine_new(VmPageSize, TwinProgram(addr, i, tail))
    IN  [memory |-> vm.memory,
         registers |-> [vm.registers EXCEPT ![0] = addr, ![2] = p[1], ![3] = p[2]],
         file_handles |-> <<>>, io |-> None,
         status |-> "running", result |-> None,
         code |-> <<>>, decoded |-> None]

\* the first machine, held in the variables
Machine ==
    [memory |-> memory, registers |-> registers,
     file_handles |-> file_handles, io |-> io,
     status |-> status, result |-> result,
     code |-> code, decoded |-> decoded]

InitTwin ==
    /\ \E addr \in TwinAddrs, i \in TwinInstrs, p \in TwinPairs :
       \E tail \in Tails : \E other \in Tails \ {tail} :
       \E vm \in {TwinMachine(addr, i, tail, p)} :
          /\ program = TwinProgram(addr, i, tail)
          /\ memory = vm.memory /\ registers = vm.registers
          /\ file_handles = vm.file_handles /\ io = vm.io
          /\ status = vm.status /\ result = vm.result
          /\ code = vm.code /\ decoded = vm.decoded
          /\ twin = TwinMachine(addr, i, other, p)
    /\ overflow_checks \in BOOLEAN
    /\ calls = <<>> /\ buf = <<>>
    /\ instr = None
    /\ source = <<>> /\ assembled = None

\* One iteration of the loop of VirtualMachine::run on the machine vm: the
\* machines it may leave (more than one where a read wrote past its buffer)
Iterations(vm, checks, host) ==
    LET f == read_u32(vm.memory, vm.registers[0])
        d == try_from(LeWord(f.buf))
        e == IF d.kind = "Err" THEN None
             ELSE exec_instr(vm.memory, vm.registers, vm.file_handles, vm.io, d,
                             checks, host)
        fetched == [vm EXCEPT !.code = f.buf, !.decoded = None]
    IN  IF f.panic THEN {[fetched EXCEPT !.status = "panicked"]}
        ELSE (IF f.oob THEN {[fetched EXCEPT !.status = "crashed"]} ELSE {})
             \cup
             (IF d.kind = "Err"
              THEN {[fetched EXCEPT !.status = "returned", !.result = d,
                                    !.decoded = d]}
              ELSE {[memory |-> e.memory, registers |-> e.registers,
                     file_handles |-> e.file_handles, io |-> e.io,
                     status |-> IF o = "crashed" THEN "crashed"
                                ELSE IF e.ret = Panic THEN "panicked"
                                ELSE IF e.ret = OkNone THEN "running"
                                ELSE "returned",
                     result |-> IF o = "running" /\ e.ret.kind \in {"Ok", "Err"}
                                THEN e.ret ELSE vm.result,
                     code |-> f.buf, decoded |-> d] : o \in Outcomes(e.oob)})

\* vm.run() on both machines, one iteration each, with the same host
StepBoth ==
    /\ status = "running" /\ twin.status = "running"
    /\ code = <<>>
    /\ \E host \in {HostOk(0), HostOk(1), HostErr} :
       \E a \in Iterations(Machine, overflow_checks, host) :
       \E b \in Iterations(twin, overflow_checks, host) :
          /\ memory' = a.memory /\ registers' = a.registers
          /\ file_handles' = a.file_handles /\ io' = a.io
          /\ status' = a.status /\ result' = a.result
          /\ code' = a.code /\ decoded' = a.decoded
          /\ twin' = b
    /\ UNCHANGED <<program, overflow_checks, memVars, instr, asmVars>>

NextTwin == StepBoth

SpecTwin == InitTwin /\ [][NextTwin]_vars

---------------------------------------------------------------------------
(* Claims on the bytes after a compressed instruction                       *)

\* the addresses of the pages a machine of SpecTwin can hold: pages 0 and 1
\* and the last page
TwinSpace == (0 .. 2 * VmPageSize - 1) \cup (-VmPageSize .. -1)

\* two machines agree on the registers, the file table and the memory but for
\* the bytes at the addresses in free
AgreeBut(a, b, free) ==
    /\ a.registers = b.registers
    /\ a.file_handles = b.file_handles
    /\ \A addr \in TwinSpace \ free :
          MemByte(a.memory, addr) = MemByte(b.memory, addr)

\* the machine the variables hold after the step
MachineAfter ==
    [memory |-> memory', registers |-> registers',
     file_handles |-> file_handles', io |-> io',
     status |-> status', result |-> result',
     code |-> code', decoded |-> decoded']

\* the two bytes after a compressed instruction at the PC
NextTwo == {registers[0] + 2, registers[0] + 3}

\* C28 (as stated): two machines that agree but for the two bytes after the
\* instruction at the PC, whose opcode is odd, decode the same instruction in
\* one step and agree afterwards but for these two bytes.
C28_CompressedIgnoresNextBytes ==
    [][(/\ AgreeBut(Machine, twin, NextTwo)
        /\ MemByte(memory, registers[0]) % 2 = 1
        /\ code' # code)
        => /\ decoded' = twin'.decoded
           /\ AgreeBut(MachineAfter, twin', NextTwo)
      ]_vars


---------------------------------------------------------------------------
(* A program that runs into the end of the address space (SpecWrap): it     *)
(* stores the word the embedder left in r2 at the stack pointer, 0xfffffffc, *)
(* and jumps there.                                                         *)

\* store r1, r2, 0; li r0, -4
WrapProgram ==
    write_bytes(Immediate(OpCode.LI, 0, 0, -4),
    write_bytes(Store(OpCode.STORE, 1, 2, 0), <<>>))

\* the wide instructions executed at 0xfffffffc
WrapInstrs ==
    {Immediate(OpCode.LI, 3, 3, 5), Immediate(OpCode.LI, 0, 0, 8),
     Register(OpCode.ADD, 3, 2, 2), Immediate(OpCode.LOAD, 3, 1, 0),
     Store(OpCode.BEQ, 3, 3, 8), Store(OpCode.BNE, 3, 3, 8),
     Upper(OpCode.LUI, 3, 65536),
     Immediate(OpCode.BREAK, 0, 0, 0), Immediate(OpCode.CALL, 0, 0, 0)}

\* the pairs of compressed instructions executed at 0xfffffffc and 0xfffffffe
WrapPairs ==
    {<<Immediate(OpCode.C_BREAK, 0, 0, 0), j>> :
        j \in {Immediate(OpCode.C_BREAK, 0, 0, 0), Immediate(OpCode.C_LI, 3, 3, 5),
               Immediate(OpCode.C_LI, 0, 0, 8), Register(OpCode.MV, 3, 3, 1),
               Immediate(OpCode.C_BNZ, 3, 3, 4), Immediate(OpCode.C_CALL, 0, 0, 0)}}

\* the words the embedder leaves in r2
WrapWords ==
    {LeWord(write_bytes(i, <<>>)) : i \in WrapInstrs}
    \cup {LeWord(write_bytes(p[2], write_bytes(p[1], <<>>))) : p \in WrapPairs}

\* let mut vm = VirtualMachine::with_page_size(page_size, program)?;
\* vm.registers[2] = w
InitWrap ==
    /\ program = WrapProgram
    /\ \E page_size \in {DEFAULT_PAGE_SIZE, VmPageSize}, w \in WrapWords :
          LET vm == VirtualMachine_new(page_size, program)
          IN  /\ memory = vm.memory
              /\ registers = [vm.registers EXCEPT ![2] = w]
    /\ overflow_checks \in BOOLEAN
    /\ status = "running"
    /\ result = None
    /\ file_handles = <<>> /\ io = None
    /\ calls = <<>> /\ buf = <<>>
    /\ instr = None /\ code = <<>> /\ decoded = None
    /\ source = <<>> /\ assembled = None /\ twin = None

NextWrap == Step

SpecWrap == InitWrap /\ [][NextWrap]_vars

---------------------------------------------------------------------------
(* Claims on the PC at the end of the address space                         *)

\* the iteration decoded an instruction whose end passes 2^32
ExecutedAtEnd ==
    /\ IsStep
    /\ decoded' # None /\ decoded'.kind # "Err"
    /\ ULess(NextPc, registers[0])

\* C29 (as stated): an instruction of size s at an address A with A + s >= 2^32
\* is executed to its end, leaves the PC at (A + s) mod 2^32 unless it writes
\* r0 itself, and the run goes on (but for a call that ends it).
C29_PcIncrementWraps ==
    [][ExecutedAtEnd =>
          /\ status' \in {"running", "returned"}
          /\ Executed.op \notin Calls => status' = "running"
          /\ ~WritesPc(Executed) => registers'[0] = NextPc
      ]_vars


---------------------------------------------------------------------------
(* Claims on the bounds of Memory::read                                     *)

\* the newest read once more, on the memory it left as it was: where its
\* cursor ended, and whether it wrote past the buffer or panicked
NewestRead == read(memory, Newest.addr, Newest.data)

\* C30: read(addr, buf) returns for every address, length and allocation of
\* the pages of the range, without having written outside buf[0 .. len-1];
\* it has produced len bytes in all, and byte i of the buffer is the byte of
\* the memory at (addr + i) mod 2^32.
C30_ReadStaysInsideBuffer ==
    NewestIsRead =>
        /\ status \notin {"panicked", "crashed"}
        /\ ~NewestRead.panic
        /\ ~NewestRead.oob
        /\ NewestRead.pos = Len(Newest.data)
        /\ \A k \in 1 .. Len(buf) :
               buf[k] = MemByte(memory, wrapping_add(Newest.addr, k - 1))

===========================================================================
